---- MODULE Spec2Model ----
(***************************************************************************)
(* Model of the content-acquisition pipeline of context-forge:             *)
(*   - createConcurrencyLimiter and retry        (src/src/utils/async.ts)  *)
(*   - NotionService.fetchDatabasePages/processPage (src/unnamed/part_005) *)
(*   - NotionService.detectObjectType, fetchChildPages, renderPageBlocks   *)
(*     with extractBlockText and formatAsBlockQuote (src/unnamed/part_005) *)
(*   - MarkdownMerger.splitPageIntoMainAndSubpages, filterSubpagesInMarkdown, *)
(*     extractSubpageHeadings, parseVersionFromTitle, filterSubpageEntries *)
(*                                          (src/src/services/merger.ts)   *)
(*   - ContentProcessor.filterLatestVersions     (src/unnamed/part_007)    *)
(*   - ContentProcessor.groupByCategory                                    *)
(*               (src/src/services/processor.ts and src/unnamed/part_007)  *)
(*   - ConfigManager.addDatabase, removeDatabase (src/src/utils/config.ts) *)
(* Promises are modelled at the granularity of the event loop: every       *)
(* action is one synchronous run-to-completion segment of the code, i.e.   *)
(* the code between two awaits.                                            *)
(***************************************************************************)
EXTENDS Integers, Sequences, FiniteSets, TLC

\* ---------------------------------------------------------------- bounds
NumCallers == 3
MaxConcurrency == 2
MaxRetries == 4
MaxItems == 6
MaxPageSize == 6
MaxFaults == 1
MaxDetectCalls == 4
MaxBlocks == 3
MaxNesting == 12
MaxLines == 6
MaxMergeLines == 5
MaxCandidates == 3
MaxPasses == 2
MaxDatabases == 2
MaxConfigCalls == 3

CallerIds == 1..NumCallers

\* ------------------------------------------------------------- variables
VARIABLES
  maxConcurrency,  \* createConcurrencyLimiter's argument
  activeCount,     \* let activeCount
  queue,           \* const queue: resolvers of the waiting callers, by caller id
  wake,            \* released callers whose await continuation is still a pending microtask (FIFO)
  cst,             \* per caller of run(): "idle","queued","released","running","fulfilled","rejected"
  res,             \* per caller: what its run() promise settled with
  startCount,      \* per caller: number of times fn() was invoked for it
  arrived,         \* callers in the order in which they invoked run()
  waited,          \* callers that found the limiter full and had to queue
  rt,              \* the running retry() call: its options, locals and position
  numItems,        \* remote: number of items M in the collection
  pageSize,        \* remote: page size P of the collection query
  exportFlagPropertyName, \* fetchDatabasePages option; "" when absent
  pages,           \* const pages: ProcessedPage[]
  cursor,          \* let cursor; 0 is undefined
  hasMore,         \* let hasMore
  fpc,             \* position of fetchDatabasePages: "idle","start","querying","processing","returned","thrown"
  response,        \* const response: what the awaited retry() returned for the current page
  batch,           \* raw items of the current page that passed both filters, in order
  seen,            \* every raw item the remote has returned so far, in order
  itemFault,       \* per item: "none", "extract" (field extraction threw), "content" (rendering failed)
  faults,          \* number of irregular items and processing failures so far
  fetches,         \* number of retry-wrapped collection queries started
  retried,         \* some collection query failed (so some page took more than one query)
  outOfOrder       \* some task settled before a task earlier in its batch

limVars == <<maxConcurrency, activeCount, queue, wake, cst, res, startCount, arrived, waited>>

fetchVars == <<numItems, pageSize, exportFlagPropertyName, pages, cursor, hasMore, fpc,
               response, batch, seen, itemFault, faults, fetches, retried, outOfOrder>>

VARIABLES
  objectType,      \* private objectType: 'database' | 'page' | null; "null" is null
  dpc,             \* position of detectObjectType: "idle","databases.retrieve","pages.retrieve","returned","thrown"
  dres,            \* what the last detectObjectType call returned (kind) or threw (error)
  probes,          \* probes issued by the current detectObjectType call, with their outcomes
  dcalls           \* number of detectObjectType calls made so far

detectVars == <<objectType, dpc, dres, probes, dcalls>>

VARIABLES
  blocks,          \* remote: the block tree under the page (block id 0); per block its type, text and parent
  failing,         \* remote: blocks whose blocks.children.list fails for good
  headingDepth,    \* renderPageBlocks' headingDepth argument of the outermost call
  markdown,        \* page.content: the rendered page, or the text handed to the splitter
  walk,            \* outcome of the last walk of the tree: which operation, threw, deepest fetch
  sections,        \* what splitPageIntoMainAndSubpages returned
  entries,         \* writePageAsFolder's filteredSubpages
  spc              \* "tree" (nothing rendered), "text" (markdown ready), "fetched", "split"

docVars == <<blocks, failing, headingDepth, markdown, walk, sections, entries, spc>>

VARIABLES
  keepLatestVersions, \* options.keepLatestVersions
  filtered,        \* what filterSubpagesInMarkdown returned for the page
  toc,             \* what extractSubpageHeadings found in it
  mpc,             \* "idle", "merged"
  input,           \* the list of candidates or pages drawn
  output,          \* what the last resolver or grouping call returned
  op,              \* the operation last applied to a list; "none" before the first
  applied,         \* how many times it has been applied
  file,            \* .context-forge.json: its format ("none": no file) and databases
  cres,            \* the last addDatabase or removeDatabase call: alias, threw, the file before
  cops             \* number of such calls so far

exportVars == <<keepLatestVersions, filtered, toc, mpc>>
listVars == <<input, output, op, applied>>
cfgVars == <<file, cres, cops>>
toolVars == <<exportVars, listVars, cfgVars>>

restVars == <<detectVars, docVars, toolVars>>

vars == <<limVars, rt, fetchVars, restVars>>

\* ------------------------------------------------ createConcurrencyLimiter
\* The limiter's state as one value, so that several synchronous run() calls
\* can be composed inside one event-loop segment.
Lim == [activeCount |-> activeCount, queue |-> queue, wake |-> wake, cst |-> cst,
        res |-> res, startCount |-> startCount, arrived |-> arrived, waited |-> waited]

SetLim(L) ==
  /\ activeCount' = L.activeCount
  /\ queue' = L.queue
  /\ wake' = L.wake
  /\ cst' = L.cst
  /\ res' = L.res
  /\ startCount' = L.startCount
  /\ arrived' = L.arrived
  /\ waited' = L.waited

\* activeCount++ ; await fn()   (fn is invoked synchronously here)
startTask(L, c) ==
  [L EXCEPT !.activeCount = @ + 1, !.cst[c] = "running", !.startCount[c] = @ + 1]

\* run(fn) up to its first await: queue behind the bound, or start at once.
run(L, c, max) ==
  LET A == [L EXCEPT !.arrived = Append(@, c)]
  IN  IF A.activeCount >= max
        THEN [A EXCEPT !.queue = Append(@, c), !.cst[c] = "queued", !.waited = @ \cup {c}]
        ELSE startTask(A, c)

\* const next = () => { activeCount--; if (queue.length > 0) queue.shift()!() }
\* Resolving the waiter's promise only schedules its continuation.
next(L) ==
  LET D == [L EXCEPT !.activeCount = @ - 1]
  IN  IF Len(D.queue) > 0
        THEN [D EXCEPT !.queue = Tail(@), !.wake = Append(@, Head(D.queue)),
                       !.cst[Head(D.queue)] = "released"]
        ELSE D

\* Mutant of settle: the slot is given back only when the task succeeds
\* (next() after the await instead of in a finally block).
settleNoFinally(L, c, how, v) ==
  LET S == [L EXCEPT !.cst[c] = how, !.res[c] = v]
  IN  IF how = "rejected" THEN S ELSE next(S)

\* try { return await fn() } finally { next() }: the continuation of run()
\* once the task's promise has settled with (how, v).
settle(L, c, how, v) ==
  next([L EXCEPT !.cst[c] = how, !.res[c] = v])

\* Mutant of resume: the released caller starts its task a second time.
resumeTwice(L) ==
  LET c == Head(L.wake)
  IN  [startTask([L EXCEPT !.wake = Tail(@)], c) EXCEPT !.startCount[c] = @ + 1]

\* The continuation of `await new Promise(resolve => queue.push(resolve))`.
resume(L) ==
  startTask([L EXCEPT !.wake = Tail(@)], Head(L.wake))

\* ------------------------------------------------------------------ retry
DefaultRetries == 4
MinDelayMs == 300
MaxDelayMs == 3000

Min(a, b) == IF a <= b THEN a ELSE b
Max(a, b) == IF a >= b THEN a ELSE b

\* Failures of a remote call: {status, code} as the Notion client raises
\* them; status 0 stands for an error without a status (a network error).
NoError == [status |-> 0, code |-> "none"]
RateLimited == [status |-> 429, code |-> "rate_limited"]
ServerError == [status |-> 500, code |-> "internal_server_error"]
NotFound == [status |-> 404, code |-> "object_not_found"]
NetworkError == [status |-> 0, code |-> "ECONNRESET"]
Errors == {RateLimited, ServerError, NotFound, NetworkError}

\* shouldRetry = () => true   (the default of retry's options)
shouldRetryDefault(err) == TRUE

\* const code = err?.status || err?.code;
\* return code === 429 || (typeof code === 'number' && code >= 500);
\* A missing status falls back to the string code, which is never a number.
shouldRetryStatus(err) ==
  /\ err.status # 0
  /\ (err.status = 429 \/ err.status >= 500)

shouldRetry(name, err) ==
  IF name = "status" THEN shouldRetryStatus(err) ELSE shouldRetryDefault(err)

\* Math.min(maxDelayMs, minDelayMs * Math.pow(2, attempt)); the 0-20% jitter
\* only lengthens the timer and is not part of the state.
Backoff(attempt) == Min(MaxDelayMs, MinDelayMs * 2^attempt)

RetryIdleState ==
  [retries |-> 0, shouldRetry |-> "default", attempt |-> 0, lastError |-> NoError,
   pc |-> "idle", result |-> "none", fnValue |-> "none", fnError |-> NoError,
   invocations |-> 0, waits |-> 0, failures |-> 0, pending |-> 0, backoff |-> 0]

\* return await fn(): fn is invoked and its promise awaited.
invoke(R) ==
  [R EXCEPT !.pc = "calling", !.invocations = @ + 1, !.pending = @ + 1]

\* retry(fn, {retries, shouldRetry}) up to its first await.
retryCall(retries, pred) ==
  IF 0 <= retries
    THEN invoke([RetryIdleState EXCEPT !.retries = retries, !.shouldRetry = pred])
    ELSE [RetryIdleState EXCEPT !.retries = retries, !.shouldRetry = pred,
                                !.pc = "thrown", !.result = NoError]

\* Mutant of giveUp: the budget check is off by one.
giveUpEarly(R, err) ==
  R.attempt + 1 = R.retries \/ ~shouldRetry(R.shouldRetry, err)

\* Mutant of giveUp: only the budget ends the loop, shouldRetry is not asked.
giveUpOnBudgetOnly(R, err) ==
  R.attempt = R.retries

\* if (attempt === retries || !shouldRetry(err)) throw err;
giveUp(R, err) ==
  R.attempt = R.retries \/ ~shouldRetry(R.shouldRetry, err)

\* Mutant of fnRejected: giving up throws a new error made up by retry, as a
\* wrapper around the cause would be, in place of err.
fnRejectedWrapped(R, err) ==
  LET C == [R EXCEPT !.lastError = err, !.fnError = err, !.failures = @ + 1,
                     !.pending = @ - 1]
  IN  IF giveUp(C, err)
        THEN [C EXCEPT !.pc = "thrown", !.result = [status |-> 0, code |-> "retry_failed"]]
        ELSE [C EXCEPT !.pc = "sleeping", !.waits = @ + 1, !.backoff = Backoff(C.attempt)]

\* catch (err) { lastError = err; ... throw err | await sleep(backoff + jitter) }
\* fnError records what the wrapped call raised, whatever retry does with it.
fnRejected(R, err) ==
  LET C == [R EXCEPT !.lastError = err, !.fnError = err, !.failures = @ + 1,
                     !.pending = @ - 1]
  IN  IF giveUp(C, err)
        THEN [C EXCEPT !.pc = "thrown", !.result = err]
        ELSE [C EXCEPT !.pc = "sleeping", !.waits = @ + 1, !.backoff = Backoff(C.attempt)]

\* Mutant of fnFulfilled: the value of the call is dropped (no `return`).
fnFulfilledNoValue(R, v) ==
  [R EXCEPT !.pc = "returned", !.result = "none", !.fnValue = v, !.pending = @ - 1]

\* return await fn();  with fn's promise fulfilled with v
fnFulfilled(R, v) ==
  [R EXCEPT !.pc = "returned", !.result = v, !.fnValue = v, !.pending = @ - 1]

\* The timer of sleep() fires: attempt += 1; while (attempt <= retries) ...;
\* after the loop: throw lastError.
slept(R) ==
  LET A == [R EXCEPT !.attempt = @ + 1]
  IN  IF A.attempt <= A.retries
        THEN invoke(A)
        ELSE [A EXCEPT !.pc = "thrown", !.result = A.lastError]

RetryIdle == rt = RetryIdleState

RetryInit ==
  rt \in {[RetryIdleState EXCEPT !.retries = r, !.shouldRetry = p] :
             r \in 0..MaxRetries, p \in {"default", "status"}}

\* The caller invokes retry(fn, options).
RetryCall ==
  /\ rt.pc = "idle"
  /\ rt' = retryCall(rt.retries, rt.shouldRetry)

\* The wrapped call fails with err.
FnRejects(err) ==
  /\ rt.pc = "calling"
  /\ rt' = fnRejected(rt, err)

\* The wrapped call succeeds with v.
FnFulfills(v) ==
  /\ rt.pc = "calling"
  /\ rt' = fnFulfilled(rt, v)

\* The backoff timer fires.
RetryWakes ==
  /\ rt.pc = "sleeping"
  /\ rt' = slept(rt)

Values == {"v1", "v2"}

RetryOnly == UNCHANGED <<limVars, fetchVars, restVars>>
RetryStarts == RetryCall /\ RetryOnly
RetryFnRejects == (\E err \in Errors : FnRejects(err)) /\ RetryOnly
RetryFnFulfills == (\E v \in Values : FnFulfills(v)) /\ RetryOnly
RetryTimer == RetryWakes /\ RetryOnly


\* ------------------------------------------------------ markdown as lines
\* A string is the sequence of its lines (what split('\n') yields), so ''
\* is the one-element sequence holding the empty line.  A line is kept in
\* parsed form: q leading "> " quote prefixes, ind for leading whitespace,
\* then its body: blank, the marker '<!--subpage-->', a fence ("```" + t),
\* a run of n '#' followed by a space and t, or plain text t.  b is not
\* part of the text: it names the block whose rendering pushed the line.
Line(k, n, t, b) == [q |-> 0, ind |-> FALSE, k |-> k, n |-> n, t |-> t, b |-> b]
Blank == Line("blank", 0, "", 0)
EmptyString == <<Blank>>

\* line.trim().length === 0
isBlank(l) == l.q = 0 /\ l.k = "blank"
\* text.trim().length === 0
isBlankText(s) == \A i \in 1..Len(s) : isBlank(s[i])
\* trimmed.startsWith('```')
startsFence(l) == l.q = 0 /\ l.k = "fence"
\* trimmed === '<!--subpage-->'
isMarker(l) == l.q = 0 /\ l.k = "marker"
\* lines[j].match(/^(#{1,6})\s+(.+?)\s*$/): applied to the untrimmed line
headingMatch(l) ==
  l.q = 0 /\ ~l.ind /\ l.k = "hashes" /\ l.n \in 1..6 /\ l.t # ""

\* parts.join('\n\n'): a blank line between consecutive parts
RECURSIVE joinParts(_)
joinParts(ps) ==
  IF ps = <<>> THEN EmptyString
  ELSE IF Len(ps) = 1 THEN ps[1]
  ELSE ps[1] \o <<Blank>> \o joinParts(Tail(ps))

\* ------------------------------------ renderPageBlocks, fetchChildPages
MaxChildDepth == 10
TopHeadingDepth == 3

Block(type, text, parent) == [type |-> type, text |-> text, parent |-> parent]

\* The child blocks of p in the order blocks.children.list returns them.
RECURSIVE Ascending(_)
Ascending(S) ==
  IF S = {} THEN <<>>
  ELSE LET m == CHOOSE x \in S : \A y \in S : x <= y
       IN  <<m>> \o Ascending(S \ {m})

childrenOf(B, p) == Ascending({i \in DOMAIN B : B[i].parent = p})

\* A line of rich text as the splitter will read it.
textLine(t, b) ==
  IF t = "" THEN Blank
  ELSE IF t = "<!--subpage-->" THEN Line("marker", 0, "", b)
  ELSE Line("text", 0, t, b)

\* extractBlockText(block)
extractBlockText(B, b) ==
  CASE B[b].type \in {"paragraph", "quote"} -> <<textLine(B[b].text, b)>>
    [] B[b].type = "code" ->
         <<Line("fence", 0, "", b), textLine(B[b].text, b), Line("fence", 0, "", b)>>
    [] OTHER -> EmptyString

\* formatAsBlockQuote(text)
formatAsBlockQuote(s) ==
  IF isBlankText(s) THEN EmptyString
  ELSE [i \in 1..Len(s) |-> [s[i] EXCEPT !.q = @ + 1]]

\* Mutant of markerParts: the marker is pushed at every depth.
markerPartsAnyDepth(b, childDepth) ==
  <<<<Line("marker", 0, "", b)>>>>

\* if (childDepth === 0) contentParts.push('<!--subpage-->');
markerParts(b, childDepth) ==
  IF childDepth = 0 THEN <<<<Line("marker", 0, "", b)>>>> ELSE <<>>

\* `${'#'.repeat(Math.min(6, Math.max(1, headingDepth)))} ${block.child_page.title || 'Untitled'}`
headingLine(B, b, hd) ==
  Line("hashes", Min(6, Max(1, hd)), IF B[b].text = "" THEN "Untitled" ELSE B[b].text, b)

\* Mutant of caught: the failure of the nested call is rethrown.
caughtNot(child) == child

\* try { text = await this.renderPageBlocks(...) } catch (err) { logger.warn(...) }
\* A failure of the nested call is swallowed and leaves its text empty.
caught(child) ==
  IF child.threw THEN [child EXCEPT !.threw = FALSE, !.text = EmptyString] ELSE child

\* renderPageBlocks(blockId, headingDepth, childDepth) on tree B with the
\* failing listings F: threw, the returned text, and the largest childDepth
\* at which blocks.children.list was called.  The cursor loop is taken as
\* one listing: it yields all the children, or the call throws.
RECURSIVE renderPageBlocks(_, _, _, _, _), renderBlocks(_, _, _, _, _)
renderPageBlocks(B, F, blockId, hd, childDepth) ==
  IF blockId \in F
    THEN [threw |-> TRUE, text |-> EmptyString, deepest |-> childDepth]
    ELSE LET r == renderBlocks(B, F, childrenOf(B, blockId), hd, childDepth)
         IN  [threw |-> r.threw, text |-> joinParts(r.parts),
              deepest |-> Max(childDepth, r.deepest)]

\* The body of `for (const block of response.results)` over the blocks bs:
\* the contentParts pushed, in order.
renderBlocks(B, F, bs, hd, childDepth) ==
  IF bs = <<>> THEN [threw |-> FALSE, parts |-> <<>>, deepest |-> 0]
  ELSE
    LET b == Head(bs)
        isPage == B[b].type = "child_page"
        hasChildren == childrenOf(B, b) # <<>>
        child == caught(IF isPage
                          THEN renderPageBlocks(B, F, b, Min(6, hd + 1), childDepth + 1)
                        ELSE IF hasChildren
                          THEN renderPageBlocks(B, F, b, hd, childDepth + 1)
                        ELSE [threw |-> FALSE, text |-> EmptyString, deepest |-> 0])
        baseText == extractBlockText(B, b)
        \* [baseText, childrenText].filter(Boolean).join('\n\n')
        combined == joinParts(SelectSeq(<<baseText, child.text>>, LAMBDA s : s # EmptyString))
        quoted == formatAsBlockQuote(IF hasChildren THEN combined ELSE baseText)
        mine ==
          IF isPage
            THEN markerParts(b, childDepth) \o <<<<headingLine(B, b, hd)>>, EmptyString>>
                 \o (IF ~isBlankText(child.text) THEN <<child.text>> ELSE <<>>)
                 \o <<EmptyString>>
          ELSE IF B[b].type = "quote"
            THEN (IF quoted # EmptyString THEN <<quoted>> ELSE <<>>)
          ELSE IF hasChildren
            THEN (IF ~isBlankText(combined) THEN <<combined>> ELSE <<>>)
          ELSE (IF baseText # EmptyString THEN <<baseText>> ELSE <<>>)
        rest == IF child.threw THEN [threw |-> TRUE, parts |-> <<>>, deepest |-> 0]
                ELSE renderBlocks(B, F, Tail(bs), hd, childDepth)
    IN  [threw |-> rest.threw,
         parts |-> mine \o rest.parts,
         deepest |-> Max(child.deepest, rest.deepest)]

\* fetchChildPages(parentPageId, depth): the ids of the pages gathered, in
\* order, and the largest depth at which it listed block children (-1: none).
RECURSIVE fetchChildPages(_, _, _, _), fetchChildren(_, _, _, _)
fetchChildPages(B, F, parentPageId, depth) ==
  IF depth > MaxChildDepth THEN [found |-> <<>>, deepest |-> -1]
  ELSE IF parentPageId \in F THEN [found |-> <<>>, deepest |-> depth]
  ELSE LET r == fetchChildren(B, F, childrenOf(B, parentPageId), depth)
       IN  [found |-> r.found, deepest |-> Max(depth, r.deepest)]

\* for (const block of response.results) { if child_page: push(processedChild, ...grandChildren) }
fetchChildren(B, F, bs, depth) ==
  IF bs = <<>> THEN [found |-> <<>>, deepest |-> -1]
  ELSE LET b == Head(bs)
           grand == IF B[b].type = "child_page"
                      THEN fetchChildPages(B, F, b, depth + 1)
                      ELSE [found |-> <<>>, deepest |-> -1]
           mine == IF B[b].type = "child_page" THEN <<b>> ELSE <<>>
           rest == fetchChildren(B, F, Tail(bs), depth)
       IN  [found |-> mine \o grand.found \o rest.found,
            deepest |-> Max(grand.deepest, rest.deepest)]

\* ------------------------------------------ splitPageIntoMainAndSubpages
\* Mutant of skipBlank: the heading is looked for on the very next line.
skipBlankNot(ls, j) == j

\* let j = i + 1; while (j < lines.length && lines[j].trim().length === 0) j++;
RECURSIVE skipBlank(_, _)
skipBlank(ls, j) ==
  IF j <= Len(ls) /\ isBlank(ls[j]) THEN skipBlank(ls, j + 1) ELSE j

\* Mutant of sectionEnd: the fence state inside a section is not tracked.
RECURSIVE sectionEndNoFence(_, _, _)
sectionEndNoFence(ls, k, localInCode) ==
  IF k > Len(ls) THEN k
  ELSE IF isMarker(ls[k]) THEN k
  ELSE sectionEndNoFence(ls, k + 1, localInCode)

\* while (k < lines.length) { if (t.startsWith('```')) localInCode = !localInCode;
\*   if (!localInCode && t === '<!--subpage-->') break; buf.push(l); k++; }
RECURSIVE sectionEnd(_, _, _)
sectionEnd(ls, k, localInCode) ==
  IF k > Len(ls) THEN k
  ELSE LET c == IF startsFence(ls[k]) THEN ~localInCode ELSE localInCode
       IN  IF ~c /\ isMarker(ls[k]) THEN k ELSE sectionEnd(ls, k + 1, c)

\* headingMatch[2].trim(), on the titles that occur
titleOf(l) == IF l.t = "A " THEN "A" ELSE l.t

\* if (trimmed === '<!--subpage-->') { ...; if (j < lines.length) { if (headingMatch) {
startsSection(ls, i) ==
  /\ isMarker(ls[i])
  /\ skipBlank(ls, i + 1) <= Len(ls)
  /\ headingMatch(ls[skipBlank(ls, i + 1)])

\* The while loop over lines from index i (1-based).  Besides what the code
\* builds (main lines, title and content of each section) the result keeps
\* where each came from: the indices of the main lines and, per section, the
\* indices of its marker (at), its heading (from) and its end (to).
RECURSIVE scan(_, _, _, _, _)
scan(ls, i, inCode, mainIdx, subs) ==
  IF i > Len(ls) THEN [mainIdx |-> mainIdx, subpages |-> subs]
  ELSE IF startsFence(ls[i]) THEN scan(ls, i + 1, ~inCode, Append(mainIdx, i), subs)
  ELSE IF inCode THEN scan(ls, i + 1, inCode, Append(mainIdx, i), subs)
  ELSE IF startsSection(ls, i)
    THEN LET j == skipBlank(ls, i + 1)
             k == sectionEnd(ls, j + 1, FALSE)
         IN  scan(ls, k, inCode, mainIdx,
                  Append(subs, [title |-> titleOf(ls[j]), content |-> SubSeq(ls, j, k - 1),
                                at |-> i, from |-> j, to |-> k]))
  ELSE scan(ls, i + 1, inCode, Append(mainIdx, i), subs)

NoSections == [main |-> EmptyString, subpages |-> <<>>, mainIdx |-> <<>>]

\* Mutant of splitPageIntoMainAndSubpages: the lines of the sections stay
\* in the main text as well.
splitPageIntoMainAndSubpagesKeepingAll(md) ==
  IF isBlankText(md) THEN NoSections
  ELSE LET r == scan(md, 1, FALSE, <<>>, <<>>)
       IN  [main |-> md, subpages |-> r.subpages,
            mainIdx |-> [x \in 1..Len(md) |-> x]]

\* splitPageIntoMainAndSubpages(markdown); mainLines.join('\n') of no lines is ''
splitPageIntoMainAndSubpages(md) ==
  IF isBlankText(md) THEN NoSections
  ELSE LET r == scan(md, 1, FALSE, <<>>, <<>>)
       IN  [main |-> IF r.mainIdx = <<>> THEN EmptyString
                     ELSE [x \in 1..Len(r.mainIdx) |-> md[r.mainIdx[x]]],
            subpages |-> r.subpages, mainIdx |-> r.mainIdx]

\* ------------------------------------------------------------- titles
\* A title is named by its string; Chars gives its characters, on which the
\* two parsers work.  The titles drawn: plain, versioned with each keyword
\* and letter case, with equal vectors of different lengths,
\* with the keyword glued to the base and with text after the version; Chars
\* also knows the titles of the sections rendered ("A", "Untitled").  Of
\* the separator characters the patterns name, the long dashes are not drawn.
Titles ==
  {"P", "Q", "P v2", "P v2.0", "p V 3.2", "P version 3.10",
   "P ver 2", "P VERSION 4", "Pv2", "P v2 x"}

Chars(title) ==
  CASE title = "P" -> <<"P">>
    [] title = "Q" -> <<"Q">>
    [] title = "P v2" -> <<"P", " ", "v", "2">>
    [] title = "P v2.0" -> <<"P", " ", "v", "2", ".", "0">>
    [] title = "p V 3.2" -> <<"p", " ", "V", " ", "3", ".", "2">>
    [] title = "P version 3.10" ->
         <<"P", " ", "v", "e", "r", "s", "i", "o", "n", " ", "3", ".", "1", "0">>
    [] title = "P ver 2" -> <<"P", " ", "v", "e", "r", " ", "2">>
    [] title = "P VERSION 4" -> <<"P", " ", "V", "E", "R", "S", "I", "O", "N", " ", "4">>
    [] title = "Pv2" -> <<"P", "v", "2">>
    [] title = "P v2 x" -> <<"P", " ", "v", "2", " ", "x">>
    [] title = "A" -> <<"A">>
    [] title = "Untitled" -> <<"U", "n", "t", "i", "t", "l", "e", "d">>

DigitChars == <<"0", "1", "2", "3", "4", "5", "6", "7", "8", "9">>
Digits == {DigitChars[d] : d \in 1..10}
isDigit(c) == c \in Digits
digitValue(c) == (CHOOSE d \in 1..10 : DigitChars[d] = c) - 1

\* The letters that occur in the titles drawn.
UpperChars == <<"A", "D", "E", "I", "L", "N", "O", "P", "Q", "R", "S", "T", "U", "V", "X">>
LowerChars == <<"a", "d", "e", "i", "l", "n", "o", "p", "q", "r", "s", "t", "u", "v", "x">>
\* String.prototype.toLowerCase on one character
toLowerCase(c) ==
  IF \E u \in 1..Len(UpperChars) : UpperChars[u] = c
    THEN LowerChars[CHOOSE u \in 1..Len(UpperChars) : UpperChars[u] = c]
    ELSE c

\* \w of a regular expression
isWordChar(c) ==
  \/ isDigit(c)
  \/ c = "_"
  \/ \E u \in 1..Len(LowerChars) : LowerChars[u] = toLowerCase(c)

\* The first index from i on whose character is not in set S (Len(s) + 1: none).
skipChars(s, i, S) ==
  CHOOSE j \in i..(Len(s) + 1) :
    /\ j <= Len(s) => s[j] \notin S
    /\ \A x \in i..(j - 1) : s[x] \in S

\* String.prototype.trim
trim(s) ==
  LET from == skipChars(s, 1, {" "})
      to == IF from > Len(s) THEN 0
            ELSE CHOOSE j \in from..Len(s) :
                   s[j] # " " /\ \A x \in (j + 1)..Len(s) : s[x] = " "
  IN  SubSeq(s, from, to)

\* replace(/[S]+$/, ''): the trailing run of characters of S removed
stripTrailing(s, S) ==
  LET to == IF \A x \in 1..Len(s) : s[x] \in S THEN 0
            ELSE CHOOSE j \in 1..Len(s) :
                   s[j] \notin S /\ \A x \in (j + 1)..Len(s) : s[x] \in S
  IN  SubSeq(s, 1, to)

\* s has the word w at index i, letter case ignored when ci
hasWord(s, i, w, ci) ==
  /\ i + Len(w) - 1 <= Len(s)
  /\ \A x \in 1..Len(w) :
       IF ci THEN toLowerCase(s[i + x - 1]) = toLowerCase(w[x]) ELSE s[i + x - 1] = w[x]

\* \d+(?:\.\d+)* : the indices e such that s[i..e-1] matches
numberEnds(s, i) ==
  {e \in (i + 1)..(Len(s) + 1) :
     /\ \A x \in i..(e - 1) : isDigit(s[x]) \/ s[x] = "."
     /\ isDigit(s[i]) /\ isDigit(s[e - 1])
     /\ \A x \in i..(e - 2) : ~(s[x] = "." /\ s[x + 1] = ".")}

\* parseInt(p, 10) of a run of digits
RECURSIVE parseInt(_)
parseInt(p) ==
  IF p = <<>> THEN 0
  ELSE 10 * parseInt(SubSeq(p, 1, Len(p) - 1)) + digitValue(p[Len(p)])

\* versionStr.split('.').map(p => parseInt(p, 10))
RECURSIVE versionPartsOf(_)
versionPartsOf(versionStr) ==
  LET dot == skipChars(versionStr, 1, Digits)
  IN  IF dot > Len(versionStr) THEN <<parseInt(versionStr)>>
      ELSE <<parseInt(SubSeq(versionStr, 1, dot - 1))>>
           \o versionPartsOf(SubSeq(versionStr, dot + 1, Len(versionStr)))

\* versionParts: null
NoVersion == <<>>

\* The number of s from index d up to its last end among ends (<<>>: none).
numberUpTo(s, d, ends) ==
  IF ends = {} THEN <<>>
  ELSE SubSeq(s, d, (CHOOSE e \in ends : \A x \in ends : x <= e) - 1)

\* \s*[\)\]]?\s*$ matches s from index e; x is where the bracket may stand
afterBracket(s, x) == IF x <= Len(s) /\ s[x] \in {")", "]"} THEN x + 1 ELSE x

closes(s, e) ==
  skipChars(s, afterBracket(s, skipChars(s, e, {" "})), {" "}) = Len(s) + 1

\* (\d+(?:\.\d+)*)\s*[\)\]]?\s*$ from index d: the number matched
closingNumber(s, d) ==
  IF d > Len(s) THEN <<>> ELSE numberUpTo(s, d, {e \in numberEnds(s, d) : closes(s, e)})

\* [vV](?:ersion)? at index v: the index after it (0: no match)
keywordEnd(s, v) ==
  IF v > Len(s) \/ s[v] \notin {"v", "V"} THEN 0
  ELSE IF hasWord(s, v + 1, <<"e", "r", "s", "i", "o", "n">>, FALSE) THEN v + 7
  ELSE v + 1

versionAfter(s, k) ==
  IF k = 0 THEN <<>> ELSE closingNumber(s, skipChars(s, k, {" "}))

\* The suffix of s from index a matches
\*   (?:[\s\-_\(\[]*)[vV](?:ersion)?\s*(\d+(?:\.\d+)*)\s*[\)\]]?\s*$
\* and the number matched (<<>> when it does not match).
suffixVersion(s, a) ==
  versionAfter(s, keywordEnd(s, skipChars(s, a, {" ", "-", "_", "(", "["})))

\* baseRaw || trimmed
baseOr(baseRaw, trimmed) == IF baseRaw = <<>> THEN trimmed ELSE baseRaw

\* The result of parseTitle for the match whose first group ends before
\* index a, versionStr being its number (<<>>: no match).
titleParts(trimmed, a, versionStr) ==
  IF versionStr = <<>> THEN [baseTitle |-> trimmed, versionParts |-> NoVersion]
  ELSE [baseTitle |-> baseOr(trim(stripTrailing(trim(SubSeq(trimmed, 1, a - 1)),
                                                {"-", "_", "(", ":"})),
                             trimmed),
        versionParts |-> versionPartsOf(versionStr)]

\* The lazy first group ends at the first index from a on from which the
\* rest of the pattern matches.
RECURSIVE matchFrom(_, _)
matchFrom(trimmed, a) ==
  IF a > Len(trimmed) THEN titleParts(trimmed, a, <<>>)
  ELSE IF suffixVersion(trimmed, a) # <<>>
    THEN titleParts(trimmed, a, suffixVersion(trimmed, a))
  ELSE matchFrom(trimmed, a + 1)

\* parseTitle of filterLatestVersions
parseTitle(title) == matchFrom(trim(Chars(title)), 1)

\* (?:v(?:ersion)?|ver) at index m, letter case ignored: the index after it
keywordEndAnyCase(s, m) ==
  IF hasWord(s, m, <<"v", "e", "r", "s", "i", "o", "n">>, TRUE) THEN m + 7
  ELSE IF hasWord(s, m, <<"v", "e", "r">>, TRUE) THEN m + 3
  ELSE m + 1

\* (\d+(?:\.\d+)*)\b from index d: the number matched
wordNumber(s, d) ==
  IF d > Len(s) THEN <<>>
  ELSE numberUpTo(s, d, {e \in numberEnds(s, d) : e = Len(s) + 1 \/ ~isWordChar(s[e])})

\* /\b(?:v(?:ersion)?|ver)\s*(\d+(?:\.\d+)*)\b/i matched at index m of s: the
\* number matched (<<>> when there is no match at m).
versionAt(s, m) ==
  IF hasWord(s, m, <<"v">>, TRUE) /\ (m = 1 \/ ~isWordChar(s[m - 1]))
    THEN wordNumber(s, skipChars(s, keywordEndAnyCase(s, m), {" "}))
    ELSE <<>>

\* The result of parseVersionFromTitle for the match at matchIndex.
sectionTitleParts(trimmed, matchIndex, versionStr) ==
  [baseTitle |-> baseOr(trim(stripTrailing(trim(SubSeq(trimmed, 1, matchIndex - 1)),
                                           {"-", "_", ":", "(", ")", "[", "]", " "})),
                        trimmed),
   versionParts |-> versionPartsOf(versionStr)]

\* while ((m = re.exec(trimmed)) !== null) lastMatch = m: the last match is
\* the first met from the end of the title.
RECURSIVE lastMatch(_, _)
lastMatch(trimmed, m) ==
  IF m = 0 THEN [baseTitle |-> trimmed, versionParts |-> NoVersion]
  ELSE IF versionAt(trimmed, m) # <<>>
    THEN sectionTitleParts(trimmed, m, versionAt(trimmed, m))
  ELSE lastMatch(trimmed, m - 1)

\* parseVersionFromTitle
parseVersionFromTitle(title) == lastMatch(trim(Chars(title)), Len(trim(Chars(title))))

\* const { baseTitle, versionParts } = parseTitle(page.title), respectively
\* this.parseVersionFromTitle(s.title): worked out once for each title.
pageTitles == [t \in Titles \cup {"A", "Untitled"} |-> parseTitle(t)]
sectionTitles == [t \in Titles \cup {"A", "Untitled"} |-> parseVersionFromTitle(t)]

\* s.toLowerCase().replace(/\s+/g, ' ').trim()
normalize(s) ==
  LET lower == [x \in 1..Len(s) |-> toLowerCase(s[x])]
      single == SelectSeq([x \in 1..Len(lower) |->
                             IF lower[x] = " " /\ x > 1 /\ lower[x - 1] = " "
                               THEN "" ELSE lower[x]],
                          LAMBDA c : c # "")
  IN  trim(single)

\* ------------------------------------------------------ version resolver
\* Mutant of compareVersionParts: only the first components are compared.
compareFirstParts(a, b) == Head(a) - Head(b)

\* compareVersionParts(a, b): negative, zero or positive
RECURSIVE compareVersionParts(_, _)
compareVersionParts(a, b) ==
  IF a = <<>> /\ b = <<>> THEN 0
  ELSE LET av == IF a = <<>> THEN 0 ELSE Head(a)
           bv == IF b = <<>> THEN 0 ELSE Head(b)
       IN  IF av # bv THEN av - bv
           ELSE compareVersionParts(IF a = <<>> THEN a ELSE Tail(a),
                                    IF b = <<>> THEN b ELSE Tail(b))

\* The keys of a Map in insertion order: each key at its first occurrence.
RECURSIVE insertionOrder(_)
insertionOrder(keys) ==
  IF keys = <<>> THEN <<>>
  ELSE LET before == insertionOrder(SubSeq(keys, 1, Len(keys) - 1))
           key == keys[Len(keys)]
       IN  IF \E x \in 1..Len(before) : before[x] = key THEN before ELSE Append(before, key)

\* groups.get(key): the indices of the candidates under key, in input order
groupOf(parsed, key) ==
  SelectSeq([x \in 1..Len(parsed) |-> x], LAMBDA x : normalize(parsed[x].baseTitle) = key)

\* Mutant of withVersion: no member counts as versioned.
withVersionNone(parsed, list) == <<>>

\* list.filter(item => item.versionParts !== null)
withVersion(parsed, list) ==
  SelectSeq(list, LAMBDA x : parsed[x].versionParts # NoVersion)

\* Mutant of latestOf: equal versions leave the earlier member chosen.
RECURSIVE latestOfFirst(_, _, _, _, _)
latestOfFirst(ps, parsed, wv, best, i) ==
  IF i > Len(wv) THEN best
  ELSE IF compareVersionParts(parsed[best].versionParts, parsed[wv[i]].versionParts) < 0
    THEN latestOfFirst(ps, parsed, wv, wv[i], i + 1)
  ELSE latestOfFirst(ps, parsed, wv, best, i + 1)

\* The loop `for (let i = 1; i < withVersion.length; i++)` of
\* filterLatestVersions from index i on, best being the choice so far.
RECURSIVE latestOf(_, _, _, _, _)
latestOf(ps, parsed, wv, best, i) ==
  IF i > Len(wv) THEN best
  ELSE LET current == wv[i]
           cmp == compareVersionParts(parsed[best].versionParts, parsed[current].versionParts)
       IN  IF cmp < 0 THEN latestOf(ps, parsed, wv, current, i + 1)
           ELSE IF cmp = 0 /\ ps[current].lastEditedTime > ps[best].lastEditedTime
             THEN latestOf(ps, parsed, wv, current, i + 1)
           ELSE latestOf(ps, parsed, wv, best, i + 1)

\* Mutant of keptByGroup: each group is put in front of the groups before it.
RECURSIVE keptByGroupInFront(_, _, _)
keptByGroupInFront(ps, parsed, keys) ==
  IF keys = <<>> THEN <<>>
  ELSE LET list == groupOf(parsed, Head(keys))
           wv == withVersion(parsed, list)
       IN  keptByGroupInFront(ps, parsed, Tail(keys))
           \o (IF wv = <<>> THEN list ELSE <<latestOf(ps, parsed, wv, wv[1], 2)>>)

\* filterLatestVersions(pages): group by group in the order the groups were
\* created, a group without versions whole, else its best member.
RECURSIVE keptByGroup(_, _, _)
keptByGroup(ps, parsed, keys) ==
  IF keys = <<>> THEN <<>>
  ELSE LET list == groupOf(parsed, Head(keys))
           wv == withVersion(parsed, list)
       IN  (IF wv = <<>> THEN list ELSE <<latestOf(ps, parsed, wv, wv[1], 2)>>)
           \o keptByGroup(ps, parsed, Tail(keys))

filterLatestVersions(ps) ==
  LET parsed == [x \in 1..Len(ps) |-> pageTitles[ps[x].title]]
      keys == insertionOrder([x \in 1..Len(ps) |-> normalize(parsed[x].baseTitle)])
      idx == keptByGroup(ps, parsed, keys)
  IN  [x \in 1..Len(idx) |-> ps[idx[x]]]

\* The loop of filterSubpageEntries and filterSubpagesInMarkdown: the first
\* member with the greatest version.
RECURSIVE highestOf(_, _, _, _)
highestOf(parsed, wv, best, i) ==
  IF i > Len(wv) THEN best
  ELSE IF compareVersionParts(parsed[best].versionParts, parsed[wv[i]].versionParts) < 0
    THEN highestOf(parsed, wv, wv[i], i + 1)
  ELSE highestOf(parsed, wv, best, i + 1)

\* The indices the section-level filters keep for the titles given.
keepOf(titles) ==
  LET parsed == [x \in 1..Len(titles) |-> sectionTitles[titles[x]]]
  IN  {x \in 1..Len(titles) :
         LET wv == withVersion(parsed, groupOf(parsed, normalize(parsed[x].baseTitle)))
         IN  wv = <<>> \/ x = highestOf(parsed, wv, wv[1], 2)}

\* filterSubpageEntries(subpages): subpages.filter((_, idx) => keep.has(idx))
filterSubpageEntries(subpages) ==
  LET keep == keepOf([x \in 1..Len(subpages) |-> subpages[x].title])
      idx == SelectSeq([x \in 1..Len(subpages) |-> x], LAMBDA x : x \in keep)
  IN  [x \in 1..Len(idx) |-> subpages[idx[x]]]

\* ------------------------------------------------ sections kept on export
\* extractSubpageHeadings(markdown) from line i on: the title of the heading
\* that follows each marker met outside a fence.
RECURSIVE headingsFrom(_, _, _)
headingsFrom(ls, i, inCodeFence) ==
  IF i > Len(ls) THEN <<>>
  ELSE IF startsFence(ls[i]) THEN headingsFrom(ls, i + 1, ~inCodeFence)
  ELSE IF inCodeFence THEN headingsFrom(ls, i + 1, inCodeFence)
  ELSE (IF startsSection(ls, i) THEN <<titleOf(ls[skipBlank(ls, i + 1)])>> ELSE <<>>)
       \o headingsFrom(ls, i + 1, inCodeFence)

extractSubpageHeadings(md) ==
  IF md = EmptyString THEN <<>> ELSE headingsFrom(md, 1, FALSE)

\* Mutant of filterSubpagesInMarkdown: nothing is removed.
filterSubpagesInMarkdownNothing(md, keep) == md

\* filterSubpagesInMarkdown(markdown, options).  Its scan for blocks is the
\* loop of splitPageIntoMainAndSubpages without the collecting; a block runs
\* from its marker (start) to the line before the next marker (end).
filterSubpagesInMarkdown(md, keep) ==
  IF ~keep \/ isBlankText(md) THEN md
  ELSE LET blks == scan(md, 1, FALSE, <<>>, <<>>).subpages
           kept == keepOf([x \in 1..Len(blks) |-> blks[x].title])
           toRemove == UNION {blks[x].at..(blks[x].to - 1) : x \in (1..Len(blks)) \ kept}
           left == SelectSeq([x \in 1..Len(md) |-> x], LAMBDA x : x \notin toRemove)
       IN  IF blks = <<>> \/ toRemove = {} THEN md
           ELSE IF left = <<>> THEN EmptyString
           ELSE [x \in 1..Len(left) |-> md[left[x]]]

\* ------------------------------------------------------- groupByCategory
\* The categories drawn, '' being a page without category, in the order of
\* localeCompare.
Categories == <<"", "Alpha", "beta", "Uncategorized">>
localeRank(category) == CHOOSE r \in 1..Len(Categories) : Categories[r] = category

\* page.category || 'Uncategorized'
categoryOf(page) == IF page.category = "" THEN "Uncategorized" ELSE page.category

\* groups.get(category): the pages pushed under it, as added
addedUnder(ps, category) ==
  SelectSeq(ps, LAMBDA p : categoryOf(p) = category)

\* pages.sort((a, b) => b.createdTime - a.createdTime): stable, newest first
RECURSIVE newestFirst(_)
newestFirst(ps) ==
  IF ps = <<>> THEN <<>>
  ELSE LET top == CHOOSE x \in 1..Len(ps) :
                    /\ \A y \in 1..Len(ps) : ps[y].createdTime <= ps[x].createdTime
                    /\ \A y \in 1..(x - 1) : ps[y].createdTime < ps[x].createdTime
       IN  <<ps[top]>> \o newestFirst(SubSeq(ps, 1, top - 1) \o SubSeq(ps, top + 1, Len(ps)))

\* result.sort((a, b) => a.category.localeCompare(b.category)) over the keys
sortedCategories(ps) ==
  SelectSeq(SubSeq(Categories, 2, Len(Categories)),
            LAMBDA c : \E x \in 1..Len(ps) : categoryOf(ps[x]) = c)

\* groupByCategory of the later snapshot: pages kept as added
groupByCategorySnapshot(ps) ==
  LET cats == sortedCategories(ps)
  IN  [x \in 1..Len(cats) |-> [category |-> cats[x], pages |-> addedUnder(ps, cats[x])]]

\* groupByCategory of src/services/processor.ts: each group sorted newest first
groupByCategory(ps) ==
  LET cats == sortedCategories(ps)
  IN  [x \in 1..Len(cats) |->
         [category |-> cats[x], pages |-> newestFirst(addedUnder(ps, cats[x]))]]

\* --------------------------------------------------------- ConfigManager
\* loadMultiDatabaseConfig(): null (no file, or a file of neither format),
\* the stored list, or the one database 'default' of the old format.
loadMultiDatabaseConfig(stored) ==
  IF stored.format = "none" THEN <<>> ELSE stored.databases

findIndex(databases, alias) ==
  IF \E x \in 1..Len(databases) : databases[x].alias = alias
    THEN CHOOSE x \in 1..Len(databases) :
           databases[x].alias = alias /\ \A y \in 1..(x - 1) : databases[y].alias # alias
    ELSE 0

\* Mutant of addDatabase: the entry is pushed whether the alias exists or not.
addDatabaseAlwaysPush(stored, alias, notionId) ==
  IF stored.format = "none" THEN [thrown |-> TRUE, file |-> stored]
  ELSE [thrown |-> FALSE,
        file |-> [format |-> "new",
                  databases |-> Append(loadMultiDatabaseConfig(stored),
                                       [alias |-> alias, notionId |-> notionId])]]

\* addDatabase(alias, notionId): whether it threw, and the file afterwards
addDatabase(stored, alias, notionId) ==
  IF stored.format = "none" THEN [thrown |-> TRUE, file |-> stored]
  ELSE LET databases == loadMultiDatabaseConfig(stored)
           existingIndex == findIndex(databases, alias)
           entry == [alias |-> alias, notionId |-> notionId]
       IN  [thrown |-> FALSE,
            file |-> [format |-> "new",
                      databases |-> IF existingIndex # 0
                                      THEN [databases EXCEPT ![existingIndex] = entry]
                                      ELSE Append(databases, entry)]]

\* removeDatabase(alias)
removeDatabase(stored, alias) ==
  IF stored.format = "none" THEN [thrown |-> TRUE, file |-> stored]
  ELSE LET databases == loadMultiDatabaseConfig(stored)
           index == findIndex(databases, alias)
       IN  IF index = 0 THEN [thrown |-> TRUE, file |-> stored]
           ELSE [thrown |-> FALSE,
                 file |-> [format |-> "new",
                           databases |-> SubSeq(databases, 1, index - 1)
                                         \o SubSeq(databases, index + 1, Len(databases))]]

\* ------------------------------------------------- rendering and splitting
\* Kinds of blocks drawn: child pages with and without a title, text whose
\* only line is the marker, a quote, a code block whose content is the marker.
BlockVariants ==
  {<<"child_page", "A">>, <<"child_page", "">>, <<"paragraph", "x">>,
   <<"paragraph", "<!--subpage-->">>, <<"quote", "x">>, <<"code", "<!--subpage-->">>}

\* Every tree of n blocks (a block's parent is the page or an earlier block),
\* and the chains of nested child pages up to MaxNesting deep.
RECURSIVE Trees(_)
Trees(n) ==
  IF n = 0 THEN {<<>>}
  ELSE {Append(t, Block(v[1], v[2], p)) :
          t \in Trees(n - 1), v \in BlockVariants, p \in 0..(n - 1)}

Chains ==
  {[i \in 1..d |-> Block("child_page", "A", i - 1)] : d \in (MaxBlocks + 1)..MaxNesting}

\* Lines of a text handed to the splitter: blank, marker, fence, a heading
\* with trailing whitespace, an indented heading (no match), plain text.
SplitLines ==
  {Blank, Line("marker", 0, "", 0), Line("fence", 0, "", 0), Line("hashes", 3, "A ", 0),
   [Line("hashes", 2, "A", 0) EXCEPT !.ind = TRUE], Line("text", 0, "x", 0)}

Texts(n) == [1..n -> SplitLines]

NoWalk == [op |-> "none", threw |-> FALSE, deepest |-> -1, found |-> <<>>]

DocIdle ==
  /\ blocks = <<>>
  /\ failing = {}
  /\ headingDepth = TopHeadingDepth
  /\ markdown = EmptyString
  /\ walk = NoWalk
  /\ sections = NoSections
  /\ entries = <<>>
  /\ spc = "idle"

DocOnly == UNCHANGED <<limVars, rt, fetchVars, detectVars, toolVars>>

\* A page of the remote workspace, before anything is fetched.  The trees
\* are rendered from headingDepth 0 and 3, the chains from 3, 6 and 7.
RenderInit ==
  /\ blocks \in (UNION {Trees(n) : n \in 0..MaxBlocks}) \cup Chains
  /\ failing \in {{}} \cup {{i} : i \in {0} \cup {x \in 1..Min(Len(blocks), MaxBlocks) :
                                               \/ blocks[x].type = "child_page"
                                               \/ childrenOf(blocks, x) # <<>>}}
  /\ headingDepth \in (IF blocks \in Chains THEN {TopHeadingDepth, 6, 7}
                                              ELSE {0, TopHeadingDepth})
  /\ markdown = EmptyString
  /\ walk = NoWalk
  /\ sections = NoSections
  /\ entries = <<>>
  /\ spc = "tree"

\* A page.content of any shape, as the merger receives it.
SplitInit ==
  /\ blocks = <<>>
  /\ failing = {}
  /\ headingDepth = TopHeadingDepth
  /\ markdown \in UNION {Texts(n) : n \in 1..MaxLines}
  /\ walk = NoWalk
  /\ sections = NoSections
  /\ entries = <<>>
  /\ spc = "text"

\* fetchPageContent: renderPageBlocks(pageId, headingDepth, 0), '' when it throws.
RenderPage ==
  /\ spc = "tree"
  /\ LET r == renderPageBlocks(blocks, failing, 0, headingDepth, 0)
     IN  /\ walk' = [op |-> "renderPageBlocks", threw |-> r.threw,
                     deepest |-> r.deepest, found |-> <<>>]
         /\ markdown' = IF r.threw THEN EmptyString ELSE r.text
  /\ spc' = "text"
  /\ UNCHANGED <<blocks, failing, headingDepth, sections, entries>>
  /\ DocOnly

\* fetchAllPages on a page id: fetchChildPages(this.objectId).
FetchChildPages ==
  /\ spc = "tree"
  /\ LET r == fetchChildPages(blocks, failing, 0, 0)
     IN  walk' = [op |-> "fetchChildPages", threw |-> FALSE,
                  deepest |-> r.deepest, found |-> r.found]
  /\ spc' = "fetched"
  /\ UNCHANGED <<blocks, failing, headingDepth, markdown, sections, entries>>
  /\ DocOnly

\* writePageAsFolder: splitPageIntoMainAndSubpages(page.content), then
\* filterSubpageEntries(subpages) under options.keepLatestVersions.
SplitPage ==
  /\ spc = "text"
  /\ sections' = splitPageIntoMainAndSubpages(markdown)
  /\ entries' = IF keepLatestVersions THEN filterSubpageEntries(sections'.subpages)
                ELSE sections'.subpages
  /\ spc' = "split"
  /\ UNCHANGED <<blocks, failing, headingDepth, markdown, walk>>
  /\ DocOnly

\* ------------------------------------------------------ export of a page
ExportIdle ==
  /\ keepLatestVersions = TRUE
  /\ filtered = EmptyString
  /\ toc = <<>>
  /\ mpc = "idle"

\* The lines of the texts merged: markers, fences, text, and headings whose
\* titles fall in one group, with and without versions.
MergeLines ==
  {Line("marker", 0, "", 0), Line("fence", 0, "", 0), Line("text", 0, "x", 0),
   Line("hashes", 3, "P", 0), Line("hashes", 3, "P v2", 0), Line("hashes", 3, "p V 3.2", 0)}

\* Each line carries its line number, to tell equal lines apart.
MergeTexts(n) == {[i \in 1..n |-> [t[i] EXCEPT !.b = i]] : t \in [1..n -> MergeLines]}

MergeInit ==
  /\ blocks = <<>>
  /\ failing = {}
  /\ headingDepth = TopHeadingDepth
  /\ markdown \in UNION {MergeTexts(n) : n \in 1..MaxMergeLines}
  /\ walk = NoWalk
  /\ sections = NoSections
  /\ entries = <<>>
  /\ spc = "text"
  /\ keepLatestVersions \in BOOLEAN
  /\ filtered = EmptyString
  /\ toc = <<>>
  /\ mpc = "idle"

\* The merged output of one page: filterSubpagesInMarkdown(page.content,
\* options), then extractSubpageHeadings(filtered) for the table of contents.
MergePage ==
  /\ spc \in {"text", "split"}
  /\ mpc = "idle"
  /\ filtered' = filterSubpagesInMarkdown(markdown, keepLatestVersions)
  /\ toc' = extractSubpageHeadings(filtered')
  /\ mpc' = "merged"
  /\ UNCHANGED <<docVars, keepLatestVersions>>
  /\ UNCHANGED <<limVars, rt, fetchVars, detectVars, listVars, cfgVars>>

\* ------------------------------------------------- resolving and grouping
ListIdle ==
  /\ input = <<>>
  /\ output = <<>>
  /\ op = "idle"
  /\ applied = 0

ListOnly == UNCHANGED <<limVars, rt, fetchVars, detectVars, docVars, exportVars, cfgVars>>

\* The candidates: pages (title, lastEditedTime) and, with the second field
\* standing for the content, sections.
Candidates == [title : Titles, lastEditedTime : 1..2]

CandidateLists(n) == [1..n -> Candidates]

ResolverInit ==
  /\ input \in UNION {CandidateLists(n) : n \in 0..MaxCandidates}
  /\ output = <<>>
  /\ op = "none"
  /\ applied = 0

\* filterLatestVersions on the list drawn, or on its own output.
FilterLatestVersions ==
  /\ op \in {"none", "filterLatestVersions"}
  /\ applied < MaxPasses
  /\ output' = filterLatestVersions(IF applied = 0 THEN input ELSE output)
  /\ op' = "filterLatestVersions"
  /\ applied' = applied + 1
  /\ UNCHANGED input
  /\ ListOnly

\* filterSubpageEntries on the list drawn, or on its own output.
FilterSubpageEntries ==
  /\ op \in {"none", "filterSubpageEntries"}
  /\ applied < MaxPasses
  /\ output' = filterSubpageEntries(IF applied = 0 THEN input ELSE output)
  /\ op' = "filterSubpageEntries"
  /\ applied' = applied + 1
  /\ UNCHANGED input
  /\ ListOnly

\* The pages grouped: each with its place in the list as id.
GroupPages(n) ==
  {ps \in [1..n -> [id : 1..n, category : {Categories[c] : c \in 1..Len(Categories)},
                    createdTime : 1..2]] :
     \A x \in 1..n : ps[x].id = x}

GroupInit ==
  /\ input \in UNION {GroupPages(n) : n \in 0..MaxCandidates}
  /\ output = <<>>
  /\ op = "none"
  /\ applied = 0

GroupByCategory ==
  /\ op = "none"
  /\ output' = groupByCategory(input)
  /\ op' = "groupByCategory"
  /\ applied' = 1
  /\ UNCHANGED input
  /\ ListOnly

GroupByCategorySnapshot ==
  /\ op = "none"
  /\ output' = groupByCategorySnapshot(input)
  /\ op' = "groupByCategorySnapshot"
  /\ applied' = 1
  /\ UNCHANGED input
  /\ ListOnly

\* ------------------------------------------------- configuration file
NoCall == [op |-> "none", alias |-> "", thrown |-> FALSE,
           before |-> [format |-> "none", databases |-> <<>>]]

ConfigIdle ==
  /\ file = [format |-> "none", databases |-> <<>>]
  /\ cres = NoCall
  /\ cops = 0

ConfigOnly == UNCHANGED <<limVars, rt, fetchVars, detectVars, docVars, exportVars, listVars>>

Aliases == {"default", "a", "b"}
NotionIds == {1, 2}

\* The file before the first call: absent, in the old format (one database,
\* loaded under the alias 'default'), or a list of databases with pairwise
\* distinct aliases.
ConfigInit ==
  /\ file \in
       {[format |-> "none", databases |-> <<>>]}
       \cup {[format |-> "old", databases |-> <<[alias |-> "default", notionId |-> n]>>] :
               n \in NotionIds}
       \cup {[format |-> "new", databases |-> ds] :
               ds \in {d \in UNION {[1..n -> [alias : Aliases, notionId : NotionIds]] :
                                      n \in 0..MaxDatabases} :
                         \A x, y \in 1..Len(d) : d[x].alias = d[y].alias => x = y}}
  /\ cres = NoCall
  /\ cops = 0

AddDatabase ==
  /\ cops < MaxConfigCalls
  /\ \E alias \in Aliases, notionId \in NotionIds :
       LET r == addDatabase(file, alias, notionId)
       IN  /\ file' = r.file
           /\ cres' = [op |-> "addDatabase", alias |-> alias, thrown |-> r.thrown,
                       before |-> file]
  /\ cops' = cops + 1
  /\ ConfigOnly

RemoveDatabase ==
  /\ cops < MaxConfigCalls
  /\ \E alias \in Aliases :
       LET r == removeDatabase(file, alias)
       IN  /\ file' = r.file
           /\ cres' = [op |-> "removeDatabase", alias |-> alias, thrown |-> r.thrown,
                       before |-> file]
  /\ cops' = cops + 1
  /\ ConfigOnly

ToolIdle == ListIdle /\ ConfigIdle /\ ExportIdle

\* ------------------------------------------------------- detectObjectType
\* What the Notion client raises for a rejected key; the code recognises it
\* by either field, so errors carrying only one of the two are drawn too.
Unauthorized == [status |-> 401, code |-> "unauthorized"]
ProbeErrors ==
  {Unauthorized, [status |-> 0, code |-> "unauthorized"], [status |-> 401, code |-> "none"],
   NotFound, [status |-> 0, code |-> "object_not_found"],
   RateLimited, ServerError, NetworkError}

\* new Error('Invalid Notion API key. ...')
InvalidApiKey == [status |-> 0, code |-> "none", message |-> "Invalid Notion API key"]
\* new Error(`Object ID ${this.databaseId} is neither a valid database nor page ID`)
NeitherKind == [status |-> 0, code |-> "none", message |-> "neither a valid database nor page ID"]

NoKind == [kind |-> "null", error |-> NoError]

\* Mutant of isAuthError: only the HTTP status is looked at.
isAuthErrorByStatus(e) == e.status = 401

\* error.code === 'unauthorized' || error.status === 401
isAuthError(e) == e.code = "unauthorized" \/ e.status = 401

\* error.code === 'object_not_found' || error.status === 404
isNotFoundError(e) == e.code = "object_not_found" \/ e.status = 404

\* Mutant of cached: the stored kind is never taken for an answer.
cachedNever(t) == FALSE

\* if (this.objectType) return this.objectType;
cached(t) == t # "null"

\* catch (error) of the databases.retrieve probe: where the call goes next.
onDatabaseError(e) ==
  IF isAuthError(e) THEN [pc |-> "thrown", error |-> InvalidApiKey]
  ELSE IF isNotFoundError(e) THEN [pc |-> "pages.retrieve", error |-> NoError]
  ELSE [pc |-> "thrown", error |-> e]

\* catch (pageError) of the pages.retrieve probe.
onPageError(e) ==
  IF isAuthError(e) THEN [pc |-> "thrown", error |-> InvalidApiKey]
  ELSE [pc |-> "thrown", error |-> NeitherKind]

DetectIdle ==
  /\ objectType = "null"
  /\ dpc = "idle"
  /\ dres = NoKind
  /\ probes = <<>>
  /\ dcalls = 0

DetectOnly == UNCHANGED <<limVars, rt, fetchVars, docVars, toolVars>>

\* detectObjectType() is called; calls follow one another.
DetectCall ==
  /\ dpc \in {"idle", "returned", "thrown"}
  /\ dcalls < MaxDetectCalls
  /\ dcalls' = dcalls + 1
  /\ probes' = <<>>
  /\ IF cached(objectType)
       THEN dpc' = "returned" /\ dres' = [kind |-> objectType, error |-> NoError]
       ELSE dpc' = "databases.retrieve" /\ dres' = NoKind
  /\ UNCHANGED objectType
  /\ DetectOnly

\* await this.client.databases.retrieve(...) fulfils.
DatabaseRetrieved ==
  /\ dpc = "databases.retrieve"
  /\ objectType' = "database"
  /\ dpc' = "returned"
  /\ dres' = [kind |-> "database", error |-> NoError]
  /\ probes' = Append(probes, [op |-> "databases.retrieve", error |-> NoError])
  /\ UNCHANGED dcalls
  /\ DetectOnly

\* await this.client.databases.retrieve(...) rejects with e.
DatabaseRejects(e) ==
  /\ dpc = "databases.retrieve"
  /\ dpc' = onDatabaseError(e).pc
  /\ dres' = [kind |-> "null", error |-> onDatabaseError(e).error]
  /\ probes' = Append(probes, [op |-> "databases.retrieve", error |-> e])
  /\ UNCHANGED <<objectType, dcalls>>
  /\ DetectOnly

\* await this.client.pages.retrieve(...) fulfils.
PageRetrieved ==
  /\ dpc = "pages.retrieve"
  /\ objectType' = "page"
  /\ dpc' = "returned"
  /\ dres' = [kind |-> "page", error |-> NoError]
  /\ probes' = Append(probes, [op |-> "pages.retrieve", error |-> NoError])
  /\ UNCHANGED dcalls
  /\ DetectOnly

\* await this.client.pages.retrieve(...) rejects with e.
PageRejects(e) ==
  /\ dpc = "pages.retrieve"
  /\ dpc' = onPageError(e).pc
  /\ dres' = [kind |-> "null", error |-> onPageError(e).error]
  /\ probes' = Append(probes, [op |-> "pages.retrieve", error |-> e])
  /\ UNCHANGED <<objectType, dcalls>>
  /\ DetectOnly

RestIdle == DetectIdle /\ DocIdle /\ ToolIdle


\* ------------------------------------------------------- limiter actions
LimiterIdle ==
  /\ maxConcurrency = 1
  /\ activeCount = 0
  /\ queue = <<>>
  /\ wake = <<>>
  /\ cst = <<>>
  /\ res = <<>>
  /\ startCount = <<>>
  /\ arrived = <<>>
  /\ waited = {}

LimiterInit ==
  /\ maxConcurrency \in 1..MaxConcurrency
  /\ activeCount = 0
  /\ queue = <<>>
  /\ wake = <<>>
  /\ cst = [c \in CallerIds |-> "idle"]
  /\ res = [c \in CallerIds |-> "none"]
  /\ startCount = [c \in CallerIds |-> 0]
  /\ arrived = <<>>
  /\ waited = {}

\* Some code invokes run(task) for caller c.
Call(c) ==
  /\ c \in DOMAIN cst
  /\ cst[c] = "idle"
  /\ SetLim(run(Lim, c, maxConcurrency))
  /\ UNCHANGED maxConcurrency

\* The task of caller c settles and run()'s continuation executes.
TaskSettles(c, how, v) ==
  /\ c \in DOMAIN cst
  /\ cst[c] = "running"
  /\ SetLim(settle(Lim, c, how, v))
  /\ UNCHANGED maxConcurrency

\* The oldest released waiter's continuation runs.
Resume ==
  /\ Len(wake) > 0
  /\ SetLim(resume(Lim))
  /\ UNCHANGED maxConcurrency

TaskOutcomes == {<<"fulfilled", "value">>, <<"rejected", "error">>}

LimiterCall == (\E c \in CallerIds : Call(c)) /\ UNCHANGED <<rt, fetchVars, restVars>>
LimiterSettles(c) == (\E o \in TaskOutcomes : TaskSettles(c, o[1], o[2])) /\ UNCHANGED <<rt, fetchVars, restVars>>
LimiterSettle == \E c \in CallerIds : LimiterSettles(c)
LimiterResume == Resume /\ UNCHANGED <<rt, fetchVars, restVars>>


\* ------------------------------------------- NotionService.fetchDatabasePages
FetchConcurrency == 5

\* Raw items: kind says what the remote object looks like to the filters:
\*   "noProps"   a partial object without `properties`
\*   "absent"    properties without the export-flag property
\*   "unchecked" / "checked"  the export-flag property is a checkbox
ItemKinds == {"noProps", "absent", "unchecked", "checked"}
Regular == "checked"

Null == [id |-> 0, content |-> "null"]
Rendered == "rendered"

SeqRange(f) == {f[i] : i \in 1..Len(f)}
Ids(ps) == [i \in 1..Len(ps) |-> ps[i].id]
Ceil(m, p) == (m + p - 1) \div p

\* The remote's page starting at cursor c: at most pageSize items, has_more
\* and next_cursor set correctly (next_cursor null, here 0, on the last page).
Remote(c, kinds) ==
  LET last == Min(c + pageSize, numItems)
  IN  [results |-> [i \in 1..(last - c) |-> [id |-> c + i, kind |-> kinds[c + i]]],
       has_more |-> last < numItems,
       next_cursor |-> IF last < numItems THEN last ELSE 0]

\* 'properties' in page
hasProperties(page) == page.kind # "noProps"

\* isExportEnabled(properties, exportFlagPropertyName)
isExportEnabled(page, flagName) ==
  IF flagName = "" THEN TRUE
  ELSE IF page.kind = "absent" THEN FALSE
  ELSE page.kind = "checked"

\* .filter(page => 'properties' in page).filter(page => isExportEnabled(...))
survivors(results, flagName) ==
  SelectSeq(results, LAMBDA page : hasProperties(page) /\ isExportEnabled(page, flagName))

\* Mutant of fetchPageContent: the rendering failure is rethrown.
fetchPageContentRethrow(pageId, fails) ==
  IF fails THEN "throw" ELSE Rendered

\* try { return await renderPageBlocks(pageId, 3, 0) } catch { return '' }
fetchPageContent(pageId, fails) ==
  IF fails THEN "" ELSE Rendered

\* processPage(page): field extraction, then the content; any failure that
\* reaches its catch block yields null.
processPage(page, fault) ==
  IF fault = "extract" THEN Null
  ELSE LET content == fetchPageContent(page.id, fault = "content")
       IN  IF content = "throw" THEN Null ELSE [id |-> page.id, content |-> content]

\* .map(page => limit(() => processPage(page))): run() is called for every
\* surviving item, in order, in one synchronous segment.
RECURSIVE dispatch(_, _)
dispatch(L, items) ==
  IF items = <<>> THEN L
  ELSE dispatch(run(L, Head(items).id, FetchConcurrency), Tail(items))

\* Mutant of batchSettled: the first settled task ends the wait (Promise.race).
batchSettledAny(b) ==
  b = <<>> \/ \E i \in 1..Len(b) : cst[b[i].id] \in {"fulfilled", "rejected"}

\* await Promise.all(...): every promise of the batch has settled.
batchSettled(b) ==
  \A i \in 1..Len(b) : cst[b[i].id] \in {"fulfilled", "rejected"}

\* Mutant of collect: a batch is put in front of the pages gathered so far.
collectInFront(ps, b) ==
  SelectSeq([i \in 1..Len(b) |-> res[b[i].id]], LAMBDA p : p # Null) \o ps

\* for (const p of processedBatch) { if (p) pages.push(p); }
\* processedBatch holds the results by position in the batch.
collect(ps, b) ==
  ps \o SelectSeq([i \in 1..Len(b) |-> res[b[i].id]], LAMBDA p : p # Null)

\* cursor = response.next_cursor || undefined
nextCursor(r) == IF r.next_cursor = 0 THEN 0 ELSE r.next_cursor

\* Mutant of nextHasMore: the loop stops after the first page.
nextHasMoreNever(r) == FALSE

\* hasMore = response.has_more
nextHasMore(r) == r.has_more

NoResponse == [results |-> <<>>, has_more |-> FALSE, next_cursor |-> 0]

FetchIdle ==
  /\ numItems = 0
  /\ pageSize = 1
  /\ exportFlagPropertyName = ""
  /\ pages = <<>>
  /\ cursor = 0
  /\ hasMore = TRUE
  /\ fpc = "idle"
  /\ response = NoResponse
  /\ batch = <<>>
  /\ seen = <<>>
  /\ itemFault = <<>>
  /\ faults = 0
  /\ fetches = 0
  /\ retried = FALSE
  /\ outOfOrder = FALSE

FetchInit ==
  /\ numItems \in 0..MaxItems
  /\ pageSize \in 1..MaxPageSize
  /\ exportFlagPropertyName \in {"", "Export"}
  /\ pages = <<>>
  /\ cursor = 0
  /\ hasMore = TRUE
  /\ fpc = "start"
  /\ response = NoResponse
  /\ batch = <<>>
  /\ seen = <<>>
  /\ itemFault = [c \in 1..numItems |-> "none"]
  /\ faults = 0
  /\ fetches = 0
  /\ retried = FALSE
  /\ outOfOrder = FALSE
  /\ maxConcurrency = FetchConcurrency
  /\ activeCount = 0
  /\ queue = <<>>
  /\ wake = <<>>
  /\ RestIdle
  /\ cst = [c \in 1..numItems |-> "idle"]
  /\ res = [c \in 1..numItems |-> Null]
  /\ startCount = [c \in 1..numItems |-> 0]
  /\ arrived = <<>>
  /\ waited = {}
  /\ rt = RetryIdleState

\* while (hasMore) { response = await retry(() => databases.query(...), ...)
loopHead(more) ==
  IF more
    THEN /\ rt' = retryCall(DefaultRetries, "status")
         /\ fetches' = fetches + 1
         /\ fpc' = "querying"
    ELSE /\ rt' = rt
         /\ fetches' = fetches
         /\ fpc' = "returned"

\* fetchDatabasePages is called: locals are set up and the loop is entered.
FetchStart ==
  /\ fpc = "start"
  /\ pages' = <<>>
  /\ cursor' = 0
  /\ hasMore' = TRUE
  /\ loopHead(TRUE)
  /\ UNCHANGED <<restVars, limVars, response, batch, seen, itemFault, faults, retried,
                 outOfOrder, numItems, pageSize, exportFlagPropertyName>>

\* The collection query fails: with a rate limit (retried) or because the
\* database is gone (not retried).
QueryErrors == {RateLimited, NotFound}

QueryRejects ==
  /\ fpc = "querying"
  /\ \E err \in QueryErrors : FnRejects(err)
  /\ retried' = TRUE
  /\ UNCHANGED <<restVars, limVars, numItems, pageSize, exportFlagPropertyName, pages, cursor,
                 hasMore, fpc, response, batch, seen, itemFault, faults, fetches,
                 outOfOrder>>

\* The collection query returns the page at the current cursor; at most
\* MaxFaults items over the whole run are irregular.
QueryFulfills ==
  /\ fpc = "querying"
  /\ rt.pc = "calling"
  /\ \E odd \in SUBSET ((cursor + 1)..Min(cursor + pageSize, numItems)) :
       /\ faults + Cardinality(odd) <= MaxFaults
       /\ \E k \in [odd -> ItemKinds \ {Regular}] :
            LET kinds == [i \in 1..numItems |-> IF i \in odd THEN k[i] ELSE Regular]
                page == Remote(cursor, kinds)
            IN  /\ FnFulfills(page)
                /\ seen' = seen \o page.results
                /\ faults' = faults + Cardinality(odd)
  /\ UNCHANGED <<restVars, limVars, numItems, pageSize, exportFlagPropertyName, pages, cursor,
                 hasMore, fpc, response, batch, itemFault, fetches, retried, outOfOrder>>

\* The backoff timer of the query's retry fires.
QueryRetryTimer ==
  /\ fpc = "querying"
  /\ RetryWakes
  /\ UNCHANGED <<limVars, fetchVars, restVars>>

\* retry() returned the response (its frame is gone): filter it and hand
\* every surviving item to the limiter, then await Promise.all.
Dispatch ==
  /\ fpc = "querying"
  /\ rt.pc = "returned"
  /\ response' = rt.result
  /\ rt' = RetryIdleState
  /\ batch' = survivors(response'.results, exportFlagPropertyName)
  /\ SetLim(dispatch(Lim, batch'))
  /\ fpc' = "processing"
  /\ UNCHANGED <<restVars, maxConcurrency, numItems, pageSize, exportFlagPropertyName, pages,
                 cursor, hasMore, seen, itemFault, faults, fetches, retried, outOfOrder>>

\* retry() gave up: catch (error) { logger.error(...); throw error; }
FetchThrows ==
  /\ fpc = "querying"
  /\ rt.pc = "thrown"
  /\ fpc' = "thrown"
  /\ UNCHANGED <<restVars, limVars, rt, numItems, pageSize, exportFlagPropertyName, pages, cursor,
                 hasMore, response, batch, seen, itemFault, faults, fetches, retried,
                 outOfOrder>>

\* processPage of item c finishes (with or without a failure inside it) and
\* the limiter's continuation for it runs.
ProcessPageSettles ==
  /\ fpc = "processing"
  /\ \E i \in 1..Len(batch) : \E fault \in {"none", "extract", "content"} :
       LET c == batch[i].id
       IN  /\ fault # "none" => faults < MaxFaults
           /\ TaskSettles(c, "fulfilled", processPage(batch[i], fault))
           /\ itemFault' = [itemFault EXCEPT ![c] = fault]
           /\ faults' = IF fault = "none" THEN faults ELSE faults + 1
           /\ outOfOrder' = (outOfOrder \/ \E j \in 1..(i - 1) : cst[batch[j].id] # "fulfilled")
  /\ UNCHANGED <<restVars, rt, numItems, pageSize, exportFlagPropertyName, pages, cursor, hasMore,
                 fpc, response, batch, seen, fetches, retried>>

\* A queued item's turn comes.
FetchResume ==
  /\ fpc = "processing"
  /\ Resume
  /\ UNCHANGED <<rt, fetchVars, restVars>>

\* Promise.all resolved: gather the batch, advance the cursor, loop.
Collect ==
  /\ fpc = "processing"
  /\ batchSettled(batch)
  /\ pages' = collect(pages, batch)
  /\ cursor' = nextCursor(response)
  /\ hasMore' = nextHasMore(response)
  /\ loopHead(hasMore')
  /\ UNCHANGED <<restVars, limVars, numItems, pageSize, exportFlagPropertyName, response, batch,
                 seen, itemFault, faults, retried, outOfOrder>>

FetchNext ==
  \/ FetchStart
  \/ QueryRejects
  \/ QueryFulfills
  \/ QueryRetryTimer
  \/ Dispatch
  \/ FetchThrows
  \/ ProcessPageSettles
  \/ FetchResume
  \/ Collect

Spec == FetchInit /\ [][FetchNext]_vars

\* -------------------------------------------------------- specifications
LimiterNext ==
  \/ LimiterCall
  \/ LimiterSettle
  \/ LimiterResume

\* Only the limiter exists: no retry() call and no fetch are under way.
LimiterOnlyInit == LimiterInit /\ RetryIdle /\ FetchIdle /\ RestIdle

LimiterSpec == LimiterOnlyInit /\ [][LimiterNext]_vars

\* Microtasks always run, and the claim's premise: a started task settles.
FairLimiterSpec ==
  /\ LimiterSpec
  /\ WF_vars(LimiterResume)
  /\ \A c \in CallerIds : WF_vars(LimiterSettles(c))

RetryNext ==
  \/ RetryStarts
  \/ RetryFnRejects
  \/ RetryFnFulfills
  \/ RetryTimer

\* Only a retry() call exists.
RetryOnlyInit == RetryInit /\ LimiterIdle /\ FetchIdle /\ RestIdle

RetrySpec == RetryOnlyInit /\ [][RetryNext]_vars

\* detectObjectType called repeatedly on one NotionService.
DetectNext ==
  \/ DetectCall
  \/ DatabaseRetrieved
  \/ \E e \in ProbeErrors : DatabaseRejects(e)
  \/ PageRetrieved
  \/ \E e \in ProbeErrors : PageRejects(e)

DetectOnlyInit == DetectIdle /\ LimiterIdle /\ RetryIdle /\ FetchIdle /\ DocIdle /\ ToolIdle

DetectSpec == DetectOnlyInit /\ [][DetectNext]_vars

\* One page: rendered or walked for child pages, the rendering then split.
RenderNext ==
  \/ RenderPage
  \/ FetchChildPages
  \/ SplitPage

RenderOnlyInit == RenderInit /\ DetectIdle /\ LimiterIdle /\ RetryIdle /\ FetchIdle /\ ToolIdle

RenderSpec == RenderOnlyInit /\ [][RenderNext]_vars

\* The splitter on any text.
SplitOnlyInit == SplitInit /\ DetectIdle /\ LimiterIdle /\ RetryIdle /\ FetchIdle /\ ToolIdle

SplitSpec == SplitOnlyInit /\ [][SplitPage]_vars

\* The two exports of one page's text.
MergeNext ==
  \/ MergePage
  \/ SplitPage

MergeOnlyInit ==
  MergeInit /\ DetectIdle /\ LimiterIdle /\ RetryIdle /\ FetchIdle /\ ListIdle /\ ConfigIdle

MergeSpec == MergeOnlyInit /\ [][MergeNext]_vars

\* The version resolvers on any list of candidates.
ResolverNext ==
  \/ FilterLatestVersions
  \/ FilterSubpageEntries

ResolverOnlyInit ==
  ResolverInit /\ DetectIdle /\ DocIdle /\ LimiterIdle /\ RetryIdle /\ FetchIdle
    /\ ConfigIdle /\ ExportIdle

ResolverSpec == ResolverOnlyInit /\ [][ResolverNext]_vars

\* groupByCategory on any list of pages.
GroupNext ==
  \/ GroupByCategory
  \/ GroupByCategorySnapshot

GroupOnlyInit ==
  GroupInit /\ DetectIdle /\ DocIdle /\ LimiterIdle /\ RetryIdle /\ FetchIdle
    /\ ConfigIdle /\ ExportIdle

GroupSpec == GroupOnlyInit /\ [][GroupNext]_vars

\* The commands add and remove on a configuration file.
ConfigNext ==
  \/ AddDatabase
  \/ RemoveDatabase

ConfigOnlyInit ==
  ConfigInit /\ DetectIdle /\ DocIdle /\ LimiterIdle /\ RetryIdle /\ FetchIdle
    /\ ListIdle /\ ExportIdle

ConfigSpec == ConfigOnlyInit /\ [][ConfigNext]_vars

Running == {c \in DOMAIN cst : cst[c] = "running"}
Before(a, b, s) == \E i, j \in 1..Len(s) : i < j /\ s[i] = a /\ s[j] = b

\* ------------------------------------------------------------------ C1
\* C1: the number of started and not yet settled tasks (activeCount) never
\* exceeds the bound the limiter was created with.
C1_ActiveWithinBound ==
  activeCount <= maxConcurrency /\ Cardinality(Running) <= maxConcurrency

\* ------------------------------------------------------------------ C2
\* C2: callers are served in arrival order: no caller's task starts while a
\* caller that invoked run() earlier and had to queue has not started yet.
C2_NoOvertaking ==
  [][\A b \in CallerIds :
       (cst[b] # "running" /\ cst'[b] = "running")
         => \A a \in CallerIds \ {b} :
              ~(a \in waited /\ startCount[a] = 0 /\ Before(a, b, arrived'))]_vars

\* ------------------------------------------------------------------ C3
\* C3: every run(task) executes its task exactly once (never twice, once
\* when its promise settles), and every queued caller is eventually started.
C3_ExactlyOnce ==
  \A c \in DOMAIN cst :
    /\ startCount[c] <= 1
    /\ (cst[c] \in {"running", "fulfilled", "rejected"} <=> startCount[c] = 1)

C3_ServedOnceEventually ==
  /\ []C3_ExactlyOnce
  /\ \A c \in CallerIds : (cst[c] = "queued") ~> (cst[c] = "running")

C3_Witness ==
  \E c \in waited : cst[c] = "fulfilled" /\ startCount[c] = 1

\* ------------------------------------------------------------------ C4
\* C4: a failing task gives its slot back exactly as a succeeding one:
\* activeCount drops by one, the oldest queued caller (if any) is released,
\* and only the failing task's caller sees the failure.
C4_FailureReleasesSlot ==
  [][\A c \in CallerIds :
       (cst[c] = "running" /\ cst'[c] = "rejected")
         => /\ activeCount' = activeCount - 1
            /\ res'[c] = "error"
            /\ \A d \in CallerIds \ {c} : res'[d] = res[d] /\ (cst'[d] = "rejected" => cst[d] = "rejected")
            /\ IF Len(queue) > 0
                 THEN /\ queue' = Tail(queue)
                      /\ cst'[Head(queue)] = "released"
                      /\ wake' = Append(wake, Head(queue))
                 ELSE queue' = queue /\ wake' = wake]_vars

C4_Witness ==
  \E c \in DOMAIN cst : \E d \in waited :
    /\ cst[c] = "rejected"
    /\ cst[d] = "fulfilled"
    /\ Before(c, d, arrived)
    /\ maxConcurrency = 1

\* ------------------------------------------------------ fetch: shared terms
Returned == fpc = "returned"
PageIds == SeqRange(Ids(pages))
Increasing(f) == \A i, j \in 1..Len(f) : i < j => f[i] < f[j]
Unsettled == {c \in DOMAIN cst : cst[c] \in {"queued", "released", "running"}}
\* No gate, every item has properties, every item processed without failure.
PlainRun ==
  /\ exportFlagPropertyName = ""
  /\ \A i \in 1..Len(seen) : seen[i].kind # "noProps"
  /\ \A c \in DOMAIN itemFault : itemFault[c] = "none"
\* The raw items that pass both filters and whose fields could be extracted.
Kept ==
  SelectSeq(survivors(seen, exportFlagPropertyName), LAMBDA page : itemFault[page.id] # "extract")

\* ------------------------------------------------------------------ C5
\* C5 as stated: a plain run over M items in pages of P returns the M items,
\* each once, after exactly ceil(M/P) collection queries, M = 0 included.
C5_AsStated ==
  (Returned /\ PlainRun /\ ~retried)
    => /\ Ids(pages) = [i \in 1..numItems |-> i]
       /\ fetches = Ceil(numItems, pageSize)

\* C5 amended: a plain run returns the M items, each once and in order, after
\* exactly max(1, ceil(M/P)) retry-wrapped collection queries: one query is
\* issued even for an empty collection.
C5_Complete ==
  (Returned /\ PlainRun)
    => /\ Ids(pages) = [i \in 1..numItems |-> i]
       /\ fetches = Max(1, Ceil(numItems, pageSize))

C5_Witness ==
  /\ Returned /\ PlainRun
  /\ numItems = 5 /\ pageSize = 2
  /\ fetches = 3
  /\ Len(pages) = 5

\* ------------------------------------------------------------------ C6
\* C6: the returned list is ordered by (page index, position in the batch)
\* whatever the completion order of the tasks: the gathered ids always
\* increase, and the list returned is the kept items in the remote's order.
C6_PositionalOrder ==
  /\ Increasing(Ids(pages))
  /\ Returned => Ids(pages) = Ids(Kept)

C6_Witness ==
  /\ Returned
  /\ outOfOrder
  /\ fetches >= 2
  /\ Len(pages) >= 4
  /\ Len(pages) < numItems

\* ------------------------------------------------------------------ C7
\* C7: at most one collection query is in flight, and while the query of a
\* page is outstanding (in flight or backing off) every task dispatched for
\* the earlier pages has settled and exactly the earlier pages were received.
C7_SequentialPagination ==
  /\ rt.pending <= 1
  /\ (fpc = "querying" /\ rt.pc \in {"calling", "sleeping"})
       => /\ Unsettled = {}
          /\ activeCount = 0
          /\ \A i \in 1..Len(batch) : cst[batch[i].id] = "fulfilled"
          /\ Len(seen) = Min((fetches - 1) * pageSize, numItems)

C7_Witness ==
  /\ fpc = "querying"
  /\ rt.pc = "calling"
  /\ rt.pending = 1
  /\ fetches = 2
  /\ Len(batch) >= 2
  /\ outOfOrder

C9_AttemptBudget ==
  /\ rt.invocations <= rt.retries + 1
  /\ rt.pc \in {"calling", "returned", "thrown"} => rt.waits = rt.invocations - 1
  /\ rt.pc = "sleeping" => rt.waits = rt.invocations
  /\ (rt.pc = "thrown" /\ shouldRetry(rt.shouldRetry, rt.result))
       => rt.invocations = rt.retries + 1

C9_Witness ==
  /\ rt.pc = "thrown"
  /\ rt.retries = DefaultRetries
  /\ rt.invocations = 5
  /\ rt.waits = 4
  /\ shouldRetry(rt.shouldRetry, rt.result)

\* ------------------------------------------------------------------ C10
\* C10: when the call fails k <= retries times with retryable failures and
\* then succeeds, retry returns that success value after k+1 invocations
\* and k backoff waits.
C10_SuccessAfterFailures ==
  rt.pc = "returned" =>
    /\ rt.result = rt.fnValue
    /\ rt.result \in Values
    /\ rt.failures <= rt.retries
    /\ rt.invocations = rt.failures + 1
    /\ rt.waits = rt.failures

C10_Witness ==
  /\ rt.pc = "returned"
  /\ rt.failures = 2
  /\ rt.invocations = 3
  /\ rt.waits = 2
  /\ rt.shouldRetry = "status"
  /\ rt.result = "v2"

\* ------------------------------------------------------------------ C11
\* C11: a failure for which shouldRetry answers false makes retry fail in
\* the same step, whatever budget remains: no backoff wait is started and
\* the call is not invoked again, then or at any later time.
C11_NonRetryableFailsAtOnce ==
  [][/\ (/\ rt.pc = "calling"
          /\ rt'.failures = rt.failures + 1
          /\ ~shouldRetry(rt.shouldRetry, rt'.fnError))
         => (/\ rt'.pc = "thrown"
             /\ rt'.waits = rt.waits
             /\ rt'.invocations = rt.invocations)
     /\ rt.pc = "thrown"
         => (/\ rt'.pc = "thrown"
             /\ rt'.waits = rt.waits
             /\ rt'.invocations = rt.invocations)]_vars

C11_Witness ==
  /\ rt.pc = "thrown"
  /\ rt.shouldRetry = "status"
  /\ rt.fnError = NotFound
  /\ rt.attempt = 1
  /\ rt.retries = DefaultRetries
  /\ rt.invocations = 2
  /\ rt.waits = 1

\* ------------------------------------------------------------------ C12
\* C12: whenever retry gives up, by exhaustion or on a non-retryable
\* failure, what it throws is the very failure the wrapped call raised in
\* its last invocation: not a wrapper, not a replacement.
C12_OriginalFailure ==
  rt.pc = "thrown" =>
    /\ rt.failures >= 1
    /\ rt.result = rt.fnError
    /\ rt.result \in Errors

C12_Witness ==
  /\ rt.pc = "thrown"
  /\ rt.attempt = rt.retries
  /\ rt.retries = 2
  /\ rt.failures = 3
  /\ rt.result = ServerError
  /\ rt.fnError = ServerError

\* ------------------------------------------------------------------ C13
\* C13: a probe that fails with code 'unauthorized' or status 401 is the
\* last probe of its call: the call throws the fatal invalid-key error, an
\* authentication failure of the database probe is not followed by a page
\* probe, and no kind is cached.
C13_AuthFailureIsFatal ==
  \A i \in 1..Len(probes) :
    (probes[i].error.code = "unauthorized" \/ probes[i].error.status = 401) =>
      /\ i = Len(probes)
      /\ dpc = "thrown"
      /\ dres.error = InvalidApiKey
      /\ dres.kind = "null"
      /\ objectType = "null"

C13_Witness ==
  /\ dpc = "thrown"
  /\ Len(probes) = 2
  /\ probes[1] = [op |-> "databases.retrieve", error |-> NotFound]
  /\ probes[2] = [op |-> "pages.retrieve", error |-> Unauthorized]
  /\ dres.error = InvalidApiKey

\* ------------------------------------------------------------------ C14
\* C14: a probe that fails with an error that is neither authentication-class
\* nor not-found-class ends its call, at the database step and at the page
\* step alike, and the call throws that same error; it is not turned into
\* the neither-database-nor-page error and no kind is resolved.
C14_OtherFailurePropagates ==
  \A i \in 1..Len(probes) :
    LET e == probes[i].error
    IN  (/\ e # NoError
         /\ ~(e.code = "unauthorized" \/ e.status = 401)
         /\ ~(e.code = "object_not_found" \/ e.status = 404)) =>
          /\ i = Len(probes)
          /\ dpc = "thrown"
          /\ dres.error = e
          /\ dres.kind = "null"
          /\ objectType = "null"

\* ------------------------------------------------------------------ C15
\* C15: once a kind is stored, no step changes it or issues a probe, and a
\* call that returns returns the stored kind; a call that throws leaves
\* nothing stored.
C15_KindCachedForGood ==
  /\ [](dpc = "returned" => (objectType # "null" /\ dres.kind = objectType))
  /\ [](dpc = "thrown" => objectType = "null")
  /\ [][objectType # "null" =>
          (objectType' = objectType /\ probes' \in {probes, <<>>})]_vars

C15_Witness ==
  /\ dcalls = 3
  /\ objectType = "page"
  /\ dpc = "returned"
  /\ dres.kind = "page"
  /\ probes = <<>>

\* ------------------------------------------------------------------ C16
\* C16: whichever of fetchChildPages and renderPageBlocks walked the page,
\* no block-children fetch was issued at a nesting depth above 10, and on a
\* tree whose listings all succeed the walk returned without error.
C16_DescentCapped ==
  walk.op # "none" =>
    /\ walk.deepest <= MaxChildDepth
    /\ failing = {} => ~walk.threw

\* ------------------------------------------------------------------ C17
\* C17: in what renderPageBlocks returns for childDepth 0, the child-page
\* branch has put exactly one marker line for every child-page block directly
\* under the rendered page and none for a child page nested deeper; after
\* each such marker come only blank lines and then the heading of the same
\* child page, with min(6, max(1, headingDepth)) '#' and the page's title.
C17_MarkerPerTopChildPage ==
  (walk.op = "renderPageBlocks" /\ ~walk.threw) =>
    \A b \in DOMAIN blocks :
      blocks[b].type = "child_page" =>
        LET at == {i \in 1..Len(markdown) : markdown[i].k = "marker" /\ markdown[i].b = b}
        IN  /\ Cardinality(at) = (IF blocks[b].parent = 0 THEN 1 ELSE 0)
            /\ \A i \in at :
                 \E j \in (i + 1)..Len(markdown) :
                   /\ \A x \in (i + 1)..(j - 1) : markdown[x] = Blank
                   /\ markdown[j] =
                        [q |-> 0, ind |-> FALSE, k |-> "hashes",
                         n |-> IF headingDepth < 1 THEN 1
                               ELSE IF headingDepth > 6 THEN 6 ELSE headingDepth,
                         t |-> IF blocks[b].text = "" THEN "Untitled" ELSE blocks[b].text,
                         b |-> b]

C17_Witness ==
  /\ spc = "text"
  /\ walk.op = "renderPageBlocks"
  /\ ~walk.threw
  /\ headingDepth = 0
  /\ Len(blocks) = 3
  /\ blocks[1] = Block("child_page", "", 0)
  /\ blocks[2] = Block("child_page", "A", 1)
  /\ blocks[3] = Block("child_page", "A", 0)
  /\ Cardinality({i \in 1..Len(markdown) : markdown[i].k = "marker"}) = 2
  /\ markdown[3] = Line("hashes", 1, "Untitled", 1)

\* ------------------------------------------------------------------ C18
\* C18: when listing the children of a child-page block f fails, the
\* rendering of the page does not fail: it holds f's heading (and f's
\* marker when f is directly under the page), nothing of the blocks below
\* f, and is otherwise what the page renders to without the blocks below f,
\* so every sibling is rendered as usual.
C18_ChildPageFailureContained ==
  \A f \in failing :
    (walk.op = "renderPageBlocks" /\ f # 0 /\ blocks[f].type = "child_page") =>
      LET under[i \in 0..Len(blocks)] ==
            IF i = 0 THEN FALSE ELSE (blocks[i].parent = f \/ under[blocks[i].parent])
          kept == {i \in DOMAIN blocks : ~under[i]}
          pruned == [i \in kept |-> blocks[i]]
          lines(k) == {i \in 1..Len(markdown) : markdown[i].k = k /\ markdown[i].b = f}
      IN  /\ ~walk.threw
          /\ Cardinality(lines("hashes")) = 1
          /\ blocks[f].parent = 0 => Cardinality(lines("marker")) = 1
          /\ \A i \in 1..Len(markdown) : markdown[i].b \in kept \cup {0}
          /\ markdown = renderPageBlocks(pruned, {}, 0, headingDepth, 0).text

C18_Witness ==
  /\ spc = "text"
  /\ walk.op = "renderPageBlocks"
  /\ failing = {1}
  /\ Len(blocks) = 3
  /\ blocks[1] = Block("child_page", "A", 0)
  /\ blocks[2] = Block("paragraph", "x", 1)
  /\ blocks[3] = Block("quote", "x", 0)
  /\ markdown[1] = Line("marker", 0, "", 1)
  /\ markdown[Len(markdown)] = [Line("text", 0, "x", 3) EXCEPT !.q = 1]

\* ------------------------------------------------------------------ C19
\* C19: a marker line lying inside an open code fence - an odd number of
\* fence lines before it, counted among the main lines when the marker is
\* met by the main scan and from the section's heading when it lies in a
\* section, or counted over the whole text - is neither the marker that
\* opens a section nor the marker that ends one: it is a line of main or of
\* the content of the section around it, unchanged.
C19_MarkerInFenceIsText ==
  spc = "split" =>
    \A i \in 1..Len(markdown) :
      LET subs == sections.subpages
          around == {x \in 1..Len(subs) : subs[x].from < i /\ i < subs[x].to}
          mainSet == {sections.mainIdx[x] : x \in 1..Len(sections.mainIdx)}
          before == IF around = {}
                      THEN {x \in mainSet : x < i /\ startsFence(markdown[x])}
                      ELSE {x \in 1..(i - 1) : /\ \A a \in around : subs[a].from < x
                                                /\ startsFence(markdown[x])}
          all == {x \in 1..(i - 1) : startsFence(markdown[x])}
      IN  (/\ isMarker(markdown[i])
           /\ (Cardinality(before) % 2 = 1 \/ Cardinality(all) % 2 = 1)) =>
            /\ \A x \in 1..Len(subs) : subs[x].at # i /\ subs[x].to # i
            /\ \/ \E x \in 1..Len(sections.mainIdx) :
                     sections.mainIdx[x] = i /\ sections.main[x] = markdown[i]
               \/ \E a \in around : subs[a].content[i - subs[a].from + 1] = markdown[i]

C19_Witness ==
  /\ spc = "split"
  /\ Len(markdown) = 6
  /\ isMarker(markdown[1]) /\ headingMatch(markdown[2]) /\ startsFence(markdown[3])
  /\ isMarker(markdown[4]) /\ startsFence(markdown[5]) /\ isMarker(markdown[6])
  /\ Len(sections.subpages) = 1
  /\ sections.subpages[1].content = SubSeq(markdown, 2, 5)
  /\ sections.mainIdx = <<6>>

\* ------------------------------------------------------------------ C20
\* C20: the sections returned are, in scan order, exactly one for each
\* marker line that has an even number of fence lines before it and whose
\* next non-blank line is a heading (1 to 6 '#', whitespace, a title); the
\* section's title is the heading's title, trimmed, and its content is the
\* heading line and every line after it up to the next marker line outside
\* a fence, or to the end of the text.
C20_SectionPerHeadedMarker ==
  spc = "split" =>
    LET n == Len(markdown)
        outside(i) == Cardinality({x \in 1..(i - 1) : startsFence(markdown[x])}) % 2 = 0
        isHeading(l) == l.q = 0 /\ ~l.ind /\ l.k = "hashes" /\ l.n \in 1..6 /\ l.t # ""
        heading(i) == CHOOSE j \in (i + 1)..(n + 1) :
                        /\ j <= n => ~isBlank(markdown[j])
                        /\ \A x \in (i + 1)..(j - 1) : isBlank(markdown[x])
        until(j) == CHOOSE k \in (j + 1)..(n + 1) :
                      /\ k <= n => (isMarker(markdown[k]) /\ outside(k))
                      /\ \A x \in (j + 1)..(k - 1) : ~(isMarker(markdown[x]) /\ outside(x))
        opening == Ascending({i \in 1..n : /\ isMarker(markdown[i]) /\ outside(i)
                                           /\ heading(i) <= n
                                           /\ isHeading(markdown[heading(i)])})
    IN  [x \in 1..Len(sections.subpages) |->
           [title |-> sections.subpages[x].title, content |-> sections.subpages[x].content]]
        = [x \in 1..Len(opening) |->
             [title |-> IF markdown[heading(opening[x])].t = "A " THEN "A"
                        ELSE markdown[heading(opening[x])].t,
              content |-> SubSeq(markdown, heading(opening[x]), until(heading(opening[x])) - 1)]]

C20_Witness ==
  /\ spc = "split"
  /\ Len(markdown) = 6
  /\ isMarker(markdown[1]) /\ isBlank(markdown[2]) /\ headingMatch(markdown[3])
  /\ isMarker(markdown[4]) /\ headingMatch(markdown[5]) /\ markdown[6].k = "text"
  /\ Len(sections.subpages) = 2
  /\ sections.subpages[1].title = "A"
  /\ sections.subpages[1].content = <<markdown[3]>>
  /\ sections.subpages[2].content = <<markdown[5], markdown[6]>>

\* ------------------------------------------------------------------ C21
\* Terms of the statements about a text md, read off the text alone: line i
\* has an even number of fence lines before it; the first non-blank line
\* after line i (Len(md) + 1 when there is none); the first marker outside a
\* fence after line j (Len(md) + 1 when there is none); the markers outside
\* a fence whose next non-blank line is a heading; the lines from such a
\* marker up to the end of its section.
OutsideFence(md, i) ==
  Cardinality({x \in 1..(i - 1) : md[x].q = 0 /\ md[x].k = "fence"}) % 2 = 0

NextNonBlank(md, i) ==
  CHOOSE j \in (i + 1)..(Len(md) + 1) :
    /\ j <= Len(md) => ~(md[j].q = 0 /\ md[j].k = "blank")
    /\ \A x \in (i + 1)..(j - 1) : md[x].q = 0 /\ md[x].k = "blank"

MarkerOutside(md, i) ==
  md[i].q = 0 /\ md[i].k = "marker" /\ OutsideFence(md, i)

SectionUntil(md, j) ==
  CHOOSE k \in (j + 1)..(Len(md) + 1) :
    /\ k <= Len(md) => MarkerOutside(md, k)
    /\ \A x \in (j + 1)..(k - 1) : ~MarkerOutside(md, x)

FollowedByHeading(md, i) ==
  LET j == NextNonBlank(md, i)
  IN  /\ j <= Len(md)
      /\ md[j].q = 0 /\ ~md[j].ind /\ md[j].k = "hashes" /\ md[j].n \in 1..6 /\ md[j].t # ""

OpeningMarkers(md) ==
  {i \in 1..Len(md) : MarkerOutside(md, i) /\ FollowedByHeading(md, i)}

InSections(md) ==
  UNION {i..(SectionUntil(md, NextNonBlank(md, i)) - 1) : i \in OpeningMarkers(md)}

\* The lines of md outside every section, in order.
MainLines(md) ==
  LET idx == Ascending((1..Len(md)) \ InSections(md))
  IN  [x \in 1..Len(idx) |-> md[idx[x]]]

\* C21 as stated: the lines of main are the lines of the text that lie in no
\* section, in order (an empty list of lines giving the string ''), the
\* contents of the sections are the stretches from heading to section end,
\* so that only opening markers and the blank lines before their headings
\* are lost; and every marker line not followed by a heading is a main line.
C21_AsStated ==
  spc = "split" =>
    /\ sections.main = (IF MainLines(markdown) = <<>> THEN EmptyString
                        ELSE MainLines(markdown))
    /\ [x \in 1..Len(sections.subpages) |-> sections.subpages[x].content]
         = [x \in 1..Cardinality(OpeningMarkers(markdown)) |->
              LET i == Ascending(OpeningMarkers(markdown))[x]
              IN  SubSeq(markdown, NextNonBlank(markdown, i),
                         SectionUntil(markdown, NextNonBlank(markdown, i)) - 1)]
    /\ \A i \in 1..Len(markdown) :
         (markdown[i].q = 0 /\ markdown[i].k = "marker" /\ ~FollowedByHeading(markdown, i))
           => \E x \in 1..Len(sections.mainIdx) :
                sections.mainIdx[x] = i /\ sections.main[x] = markdown[i]

\* C21 (amended): the same for every text that is not blank throughout,
\* the last part for the markers that lie outside a fence; a text of blank
\* lines only gives main '' and no section.
C21_LinesConserved ==
  spc = "split" =>
    IF \A i \in 1..Len(markdown) : markdown[i].q = 0 /\ markdown[i].k = "blank"
      THEN sections.main = EmptyString /\ sections.subpages = <<>>
      ELSE
        /\ sections.main = (IF MainLines(markdown) = <<>> THEN EmptyString
                            ELSE MainLines(markdown))
        /\ [x \in 1..Len(sections.subpages) |-> sections.subpages[x].content]
             = [x \in 1..Cardinality(OpeningMarkers(markdown)) |->
                  LET i == Ascending(OpeningMarkers(markdown))[x]
                  IN  SubSeq(markdown, NextNonBlank(markdown, i),
                             SectionUntil(markdown, NextNonBlank(markdown, i)) - 1)]
        /\ \A i \in 1..Len(markdown) :
             (MarkerOutside(markdown, i) /\ ~FollowedByHeading(markdown, i))
               => \E x \in 1..Len(sections.mainIdx) :
                    sections.mainIdx[x] = i /\ sections.main[x] = markdown[i]

C21_Witness ==
  /\ spc = "split"
  /\ Len(markdown) = 6
  /\ markdown[1].k = "text"
  /\ isMarker(markdown[2]) /\ isBlank(markdown[3]) /\ headingMatch(markdown[4])
  /\ isMarker(markdown[5]) /\ markdown[6].k = "text"
  /\ sections.main = <<markdown[1], markdown[5], markdown[6]>>
  /\ Len(sections.subpages) = 1
  /\ sections.subpages[1].content = <<markdown[4]>>

\* ------------------------------------------------------------------ C22
\* The direct child-page blocks of the page rendered, in order.
DirectChildPages ==
  SelectSeq(childrenOf(blocks, 0), LAMBDA b : blocks[b].type = "child_page")

\* What the renderer emits for child page c taken alone at the top of the
\* page, after its marker: the heading, the child's own text, the separators.
RenderedAlone(c) ==
  joinParts(Tail(renderBlocks(blocks, failing, <<c>>, headingDepth, 0).parts))

\* C22: splitting the text rendered for a page at childDepth 0 yields one
\* section per direct child-page block, in order, and the content of each
\* is what rendering that child alone gives: no block of the parent that
\* follows a child page is part of the child's section.
C22_RoundTrip ==
  (spc = "split" /\ walk.op = "renderPageBlocks" /\ ~walk.threw) =>
    /\ Len(sections.subpages) = Len(DirectChildPages)
    /\ \A x \in 1..Len(DirectChildPages) :
         x <= Len(sections.subpages) =>
           sections.subpages[x].content = RenderedAlone(DirectChildPages[x])

\* ------------------------------------------------------------------ C23
\* Terms of the statements about the resolvers.  A candidate's group and
\* version are those its resolver reads from the title: parseTitle for
\* filterLatestVersions, parseVersionFromTitle for filterSubpageEntries.
Resolved == op \in {"filterLatestVersions", "filterSubpageEntries"}

ReadAs(c) ==
  IF op = "filterLatestVersions" THEN parseTitle(c.title) ELSE parseVersionFromTitle(c.title)

GroupKey(c) == normalize(ReadAs(c).baseTitle)

Versioned(c) == ReadAs(c).versionParts # NoVersion

\* The positions in list l of the members of the group of candidate c.
GroupIn(l, c) == {x \in 1..Len(l) : GroupKey(l[x]) = GroupKey(c)}

\* Version a is at least version b: at the first component where they
\* differ, a missing component being 0, a is the greater.
VersionGeq(a, b) ==
  LET at(v, i) == IF i <= Len(v) THEN v[i] ELSE 0
      n == IF Len(a) > Len(b) THEN Len(a) ELSE Len(b)
  IN  \A i \in 1..n : (\A j \in 1..(i - 1) : at(a, j) = at(b, j)) => at(a, i) >= at(b, i)

\* C23 as stated: the output of either resolver holds at most one candidate
\* of each normalized base-title group.
C23_AsStated ==
  Resolved =>
    \A x, y \in 1..Len(output) :
      GroupKey(output[x]) = GroupKey(output[y]) => x = y

\* C23 (amended): the output holds at most one candidate of each group that
\* has a versioned member; a group without one is kept whole, in order.
C23_OnePerVersionedGroup ==
  (Resolved /\ applied = 1) =>
    \A x \in 1..Len(input) :
      LET members == Ascending(GroupIn(input, input[x]))
          outs == Ascending(GroupIn(output, input[x]))
      IN  IF \E m \in GroupIn(input, input[x]) : Versioned(input[m])
            THEN Len(outs) <= 1
            ELSE [i \in 1..Len(outs) |-> output[outs[i]]]
                 = [i \in 1..Len(members) |-> input[members[i]]]

C23_Witness ==
  /\ Resolved /\ applied = 1
  /\ Len(input) = 3 /\ Len(output) = 2
  /\ input[1].title = "P v2" /\ input[2].title = "Q" /\ input[3].title = "p V 3.2"
  /\ \E y \in 1..2 : output[y].title = "p V 3.2"
  /\ \E y \in 1..2 : output[y].title = "Q"

\* ------------------------------------------------------------------ C24
\* C24: a resolver applied to its own output returns that list, the same
\* elements in the same order.
C24_Idempotent ==
  [][(applied >= 1 /\ applied' = applied + 1) => output' = output]_vars

C24_Witness ==
  /\ op = "filterLatestVersions" /\ applied = 2
  /\ Len(input) = 3
  /\ input[1].title = "P v2" /\ input[2].title = "Q" /\ input[3].title = "p V 3.2"
  /\ Len(output) = 2
  /\ output[1].title = "p V 3.2" /\ output[2].title = "Q"

\* ------------------------------------------------------------------ C25
\* C25: of a group with a versioned member exactly one member is kept, it is
\* versioned and its version is at least that of every versioned member of
\* the group; all the other members, versioned or not, are dropped.
C25_GreatestVersionKept ==
  (Resolved /\ applied = 1) =>
    \A x \in 1..Len(input) :
      (\E m \in GroupIn(input, input[x]) : Versioned(input[m])) =>
        /\ Cardinality(GroupIn(output, input[x])) = 1
        /\ \A y \in GroupIn(output, input[x]) :
             /\ \E m \in GroupIn(input, input[x]) : input[m] = output[y]
             /\ Versioned(output[y])
             /\ \A m \in GroupIn(input, input[x]) :
                  Versioned(input[m]) =>
                    VersionGeq(ReadAs(output[y]).versionParts, ReadAs(input[m]).versionParts)

C25_Witness ==
  /\ Resolved /\ applied = 1
  /\ Len(input) = 3
  /\ input[1].title = "P version 3.10" /\ input[2].title = "p V 3.2" /\ input[3].title = "P"
  /\ Len(output) = 1
  /\ output[1] = input[1]

\* ------------------------------------------------------------------ C26
\* C26: the member filterLatestVersions keeps of a group was edited no
\* earlier than any member of the group with the same version.
C26_LatestEditWinsTie ==
  (op = "filterLatestVersions" /\ applied = 1) =>
    \A y \in 1..Len(output) :
      Versioned(output[y]) =>
        \A m \in GroupIn(input, output[y]) :
          (/\ Versioned(input[m])
           /\ VersionGeq(ReadAs(input[m]).versionParts, ReadAs(output[y]).versionParts))
            => output[y].lastEditedTime >= input[m].lastEditedTime

C26_Witness ==
  /\ op = "filterLatestVersions" /\ applied = 1
  /\ Len(input) = 3
  /\ input[1] = [title |-> "P v2", lastEditedTime |-> 1]
  /\ input[2] = [title |-> "P v2.0", lastEditedTime |-> 2]
  /\ input[3] = [title |-> "P v2", lastEditedTime |-> 1]
  /\ output = <<input[2]>>

\* ------------------------------------------------------------------ C27
\* C27: the two parsers read every title alike: the same base title and the
\* same version.
C27_ParsersAgree ==
  Resolved =>
    \A x \in 1..Len(input) : parseTitle(input[x].title) = parseVersionFromTitle(input[x].title)

\* ------------------------------------------------------------------ C28
\* C28: the groups returned partition the pages given: every page is in
\* one group only, that of its category ('Uncategorized' when it has none);
\* no group is empty, no two groups have the same category, and the pages of
\* a group stand in the order they had in the list given.
C28_PartitionInInputOrder ==
  op \in {"groupByCategory", "groupByCategorySnapshot"} =>
    /\ \A x \in 1..Len(input) :
         Cardinality({gi \in UNION {{<<g, i>> : i \in 1..Len(output[g].pages)} :
                                      g \in 1..Len(output)} :
                        output[gi[1]].pages[gi[2]] = input[x]}) = 1
    /\ \A g \in 1..Len(output) :
         /\ output[g].pages # <<>>
         /\ \A h \in 1..Len(output) : output[g].category = output[h].category => g = h
         /\ \A i \in 1..Len(output[g].pages) :
              LET page == output[g].pages[i]
              IN  /\ page.id \in 1..Len(input) /\ input[page.id] = page
                  /\ output[g].category
                       = (IF page.category = "" THEN "Uncategorized" ELSE page.category)
         /\ \A i, j \in 1..Len(output[g].pages) :
              i < j => output[g].pages[i].id < output[g].pages[j].id

\* ------------------------------------------------------------------ C29
\* C29: with keepLatestVersions set, the headings extractSubpageHeadings
\* finds in the text filterSubpagesInMarkdown returns are, in order, the
\* titles of the sections writePageAsFolder keeps, and every line the
\* splitter assigns to main is still in that text, in its place.
C29_SameSectionsBothPaths ==
  (spc = "split" /\ mpc = "merged" /\ keepLatestVersions) =>
    /\ toc = [x \in 1..Len(entries) |-> entries[x].title]
    /\ \A x \in 1..Len(sections.mainIdx) :
         \E y \in 1..Len(filtered) : filtered[y] = markdown[sections.mainIdx[x]]
    /\ \A y, z \in 1..Len(filtered) : y < z => filtered[y].b < filtered[z].b

C29_Witness ==
  /\ spc = "split" /\ mpc = "merged" /\ keepLatestVersions
  /\ Len(markdown) = 5
  /\ markdown[1].k = "text"
  /\ isMarker(markdown[2]) /\ markdown[3].t = "P v2"
  /\ isMarker(markdown[4]) /\ markdown[5].t = "p V 3.2"
  /\ toc = <<"p V 3.2">>
  /\ filtered = <<markdown[1], markdown[4], markdown[5]>>
  /\ Len(sections.subpages) = 2 /\ Len(entries) = 1

\* ------------------------------------------------------------------ C30
\* C30: the aliases of the stored databases stay pairwise distinct.  An
\* addDatabase whose alias is stored replaces that entry where it stands:
\* the list keeps its length and every alias its position, the first
\* included; one whose alias is new appends one entry; a removeDatabase
\* whose alias is not stored throws and leaves the file as it was.
C30_AliasesStayDistinct ==
  LET now == file.databases
      was == cres.before.databases
      known == \E x \in 1..Len(was) : was[x].alias = cres.alias
  IN  /\ \A x, y \in 1..Len(now) : now[x].alias = now[y].alias => x = y
      /\ (cres.op = "addDatabase" /\ ~cres.thrown /\ known) =>
           /\ Len(now) = Len(was)
           /\ \A x \in 1..Len(was) :
                /\ now[x].alias = was[x].alias
                /\ was[x].alias # cres.alias => now[x] = was[x]
      /\ (cres.op = "addDatabase" /\ ~cres.thrown /\ ~known) =>
           /\ Len(now) = Len(was) + 1
           /\ SubSeq(now, 1, Len(was)) = was
           /\ now[Len(now)].alias = cres.alias
      /\ (cres.op = "removeDatabase" /\ ~known) =>
           (cres.thrown /\ file = cres.before)

C30_Witness ==
  /\ cres.op = "addDatabase" /\ ~cres.thrown
  /\ cres.alias = "default"
  /\ Len(cres.before.databases) = 2
  /\ cres.before.databases[1] = [alias |-> "default", notionId |-> 1]
  /\ file.databases = <<[alias |-> "default", notionId |-> 2], cres.before.databases[2]>>
  /\ cops = 3

====
